---- MODULE Spec2Model ----
(***************************************************************************)
(* LumiSync: the GUI sync controller (SyncController), the settings loader *)
(* (devices.get_data) and the sync worker threads it spawns.               *)
(*                                                                         *)
(* One caller thread (the GUI) invokes the controller's methods one after  *)
(* the other; stop_sync blocks that thread in Thread.join(timeout=2).      *)
(* Every start_* call spawns a daemon thread running that mode's           *)
(* sync_task; worker threads interleave freely with the caller.            *)
(***************************************************************************)
EXTENDS Integers, Sequences, FiniteSets, TLC

VARIABLES
    gui_pc,              \* caller thread: "new" | "idle" | "join" (inside stop_sync's join)
    pending,             \* start_* call that invoked stop_sync and resumes after it ("none": direct call)
    sync_thread,         \* self.sync_thread: 0 (None) or a worker id
    stop_event,          \* self.stop_event.is_set()
    current_sync_mode,   \* self.current_sync_mode ("none" is None)
    server,              \* self.server is not None
    all_devices,         \* self.all_devices
    selected_device,     \* self.selected_device (NoDevice is None)
    monitor_brightness,  \* self.monitor_brightness (percent)
    music_brightness,    \* self.music_brightness (percent)
    BRIGHTNESS,          \* config.options.BRIGHTNESS (monitor, music)
    color_rotation,      \* config.options.GENERAL.color_rotation
    status,              \* last message handed to the status sink
    file,                \* settings.json (NoFile when absent)
    now,                 \* time.time()
    backend_ok,          \* ScreenGrab() can be constructed on this platform
    workers,             \* the sync_task threads
    action_mode,         \* an ActionSyncMode object's fields
    clock,               \* time.time() as the action mode reads it, in ticks
    frame,               \* the colors generate_colors returned last
    colors,              \* the color list handed to utils.convert_colors
    encoded,             \* what convert_colors gave: state "none" (not called), "ok", "error"
    decoded_bytes,       \* base64.b64decode(encoded) as a list of bytes
    wire,                \* the payloads handed to connection.send_razer_data
    settings,            \* what the last direct call of devices.get_data gave
    sampled,             \* the colors handed to _apply_rotation
    angle,               \* its rotation argument
    rotated,             \* what it returned
    transition,          \* one call of monitor.smooth_transition and the frames it sent
    monitor_task,        \* the locals of one monitor sync_task, frames named by number
    sends,               \* what that task handed to the devices, in order
    task,                \* one worker loop (a controller sync_task or BaseSyncMode.run)
    registered,          \* self.all_devices as that worker reads it (device numbers)
    task_stop,           \* the stop event that worker tests
    events,              \* its switch commands, captures and frames, in order
    COLORS_current,      \* config.options.COLORS.current, the music buffer
    screen,              \* the size of the captured image a sampling function is given
    request,             \* the sampling function called and its arguments
    samples              \* what it returned: per color, the pixels it was taken from

controller == <<gui_pc, pending, sync_thread, stop_event, current_sync_mode, server,
                all_devices, selected_device, monitor_brightness, music_brightness,
                BRIGHTNESS, color_rotation, status, file, now, backend_ok, workers>>

action_vars == <<action_mode, clock, frame>>

\* The state of the sync-mode and codec functions, which no controller
\* method or worker step of this model touches.
codec_vars == <<colors, encoded, decoded_bytes, wire>>

loader_vars == <<settings>>

rotation_vars == <<sampled, angle, rotated>>

transition_vars == <<transition>>

session_vars == <<monitor_task, sends>>

task_vars == <<task, registered, task_stop, events>>

music_vars == <<COLORS_current>>

sampling_vars == <<screen, request, samples>>

\* The families declared before task_vars, and those from task_vars on.
earlier_vars == <<action_vars, codec_vars, loader_vars, rotation_vars, transition_vars,
                  session_vars>>

later_vars == <<task_vars, music_vars, sampling_vars>>

calc == <<earlier_vars, later_vars>>

vars == <<controller, calc>>

(***************************************************************************)
(* Bounds                                                                  *)
(***************************************************************************)
MaxWorkers == 2      \* worker threads alive at the same time
MaxDevices == 2      \* devices in a settings file or a discovery result
MaxDays    == 1      \* times the clock jumps past the staleness window

(***************************************************************************)
(* Program constants                                                       *)
(***************************************************************************)
GENERAL_nled       == 4
DEVICE_CONFIG_nled == 4
StaleAfter         == 86400
SmoothSteps        == 3
InitMonitorBrightness == 75
InitMusicBrightness   == 85
DEVICE_CONFIG_brightness == 75

Modes       == {"monitor", "music", "edge", "zone", "action"}
ScreenModes == {"monitor", "edge", "zone", "action"}
ValidRotations == {0, 90, 180, 270}

(***************************************************************************)
(* Input domains                                                           *)
(***************************************************************************)
NoRotation   == -1                            \* settings.json has no "color_rotation"
NoDevice     == [nled |-> 0]                       \* None
NoFile       == [exists |-> FALSE, has_devices |-> FALSE, devices |-> <<>>,
                 rot |-> NoRotation, time |-> 0]
ConnectFails == [ok |-> FALSE, devices |-> <<>>]   \* connect() raises

\* The devices as a settings file lists them: the i-th entry carries its own
\* "nled" (8) when i is odd and gets the default otherwise.
Network(i) == [nled |-> IF i % 2 = 1 THEN 8 ELSE DEVICE_CONFIG_nled]
Devices == {Network(i) : i \in 1..MaxDevices}
DeviceLists == {[i \in 1..n |-> Network(i)] : n \in 0..MaxDevices}
\* The devices of a discovery that gathered n replies: parseMessages gives
\* each the default "nled".
Discovered(n) == [i \in 1..n |-> [nled |-> DEVICE_CONFIG_nled]]
BrightnessInputs == {50}
RotationInputs   == {0, 90, 45}
Workers == 1..MaxWorkers

(***************************************************************************)
(* Status messages                                                         *)
(***************************************************************************)
ModeLabel(m) ==
    CASE m = "monitor" -> "Monitor sync"
      [] m = "music"   -> "Music sync"
      [] m = "edge"    -> "Edge lighting sync"
      [] m = "zone"    -> "Zone lighting sync"
      [] m = "action"  -> "Action detection sync"

StoppedMsg(m)   == <<ModeLabel(m), "stopped">>
StartedMsg(m)   == <<ModeLabel(m), "started">>
CriticalMsg(m)  == <<m, "sync error">>
IterErrorMsg(m) == <<"Error in", m, "sync">>
SendErrorMsg    == <<"Error syncing device">>
LoadErrorMsg    == <<"Error loading devices">>
NoDevicesMsg    == <<"No devices available. Please discover devices first.">>
SyncStoppedMsg  == <<"Sync stopped">>
ReadyMsg        == <<"Ready to sync">>
LoadedMsg       == <<"Loaded devices">>
InitErrorMsg    == <<"Error initializing devices">>
NoStatus        == <<>>

(***************************************************************************)
(* devices.get_data: load settings.json, rediscover when absent or stale.  *)
(* f: the file, rot: GENERAL.color_rotation, t: time.time(), disc: what    *)
(* discovery would answer (a device list, or ConnectFails when connect()   *)
(* raises; a failing listen() yields the empty list).                      *)
(* Result: the file and rotation afterwards, the returned settings' device *)
(* list (has_devices: it has a "devices" entry), raised: get_data raises.  *)
(***************************************************************************)
parseMessages(disc, rot, t) ==
    [exists |-> TRUE, has_devices |-> TRUE, devices |-> disc.devices,
     rot |-> rot, time |-> t]

\* Mutant of get_data: data exactly StaleAfter seconds old counts as stale.
get_data_stale_inclusive(f, rot, t, disc) ==
    IF ~f.exists
    THEN IF ~disc.ok
         THEN [file |-> f, rot |-> rot, has_devices |-> FALSE, devices |-> <<>>,
               raised |-> TRUE]
         ELSE [file |-> parseMessages(disc, rot, t), rot |-> rot,
               has_devices |-> TRUE, devices |-> disc.devices, raised |-> FALSE]
    ELSE LET rot1 == IF f.rot # NoRotation THEN f.rot ELSE rot IN
         IF t - f.time >= StaleAfter
         THEN IF ~disc.ok
              THEN [file |-> f, rot |-> rot1, has_devices |-> TRUE, devices |-> <<>>,
                    raised |-> FALSE]
              ELSE [file |-> parseMessages(disc, rot1, t), rot |-> rot1,
                    has_devices |-> TRUE, devices |-> disc.devices, raised |-> FALSE]
         ELSE [file |-> f, rot |-> rot1, has_devices |-> f.has_devices,
               devices |-> f.devices, raised |-> FALSE]

get_data(f, rot, t, disc) ==
    IF ~f.exists
    THEN \* except (FileNotFoundError, JSONDecodeError): request() runs inside the handler
         IF ~disc.ok
         THEN [file |-> f, rot |-> rot, has_devices |-> FALSE, devices |-> <<>>,
               raised |-> TRUE]
         ELSE [file |-> parseMessages(disc, rot, t), rot |-> rot,
               has_devices |-> TRUE, devices |-> disc.devices, raised |-> FALSE]
    ELSE LET rot1 == IF f.rot # NoRotation THEN f.rot ELSE rot IN
         IF t - f.time > StaleAfter
         THEN IF ~disc.ok
              THEN \* except Exception: empty fallback, nothing written
                   [file |-> f, rot |-> rot1, has_devices |-> TRUE, devices |-> <<>>,
                    raised |-> FALSE]
              ELSE [file |-> parseMessages(disc, rot1, t), rot |-> rot1,
                    has_devices |-> TRUE, devices |-> disc.devices, raised |-> FALSE]
         ELSE [file |-> f, rot |-> rot1, has_devices |-> f.has_devices,
               devices |-> f.devices, raised |-> FALSE]

DiscoveryOutcomes ==
    {[ok |-> TRUE, devices |-> Discovered(n)] : n \in 0..MaxDevices} \cup {ConnectFails}

(***************************************************************************)
(* Worker threads                                                          *)
(***************************************************************************)
IdleWorker ==
    [pc |-> "idle", mode |-> "none", num_leds |-> 0, devs |-> <<>>, idx |-> 0,
     step |-> 0, colors |-> 0, bright |-> 0, previous_colors |-> FALSE,
     abandoned |-> FALSE]

is_alive(w) == workers[w].pc # "idle"

\* Mutant of thread_alive: the liveness test inverted.
thread_alive_inverted == sync_thread # 0 /\ ~is_alive(sync_thread)

thread_alive == sync_thread # 0 /\ is_alive(sync_thread)

FreeSlot == CHOOSE w \in Workers :
                /\ ~is_alive(w)
                /\ \A v \in Workers : ~is_alive(v) => w <= v

HasFreeSlot == \E w \in Workers : ~is_alive(w)

(***************************************************************************)
(* SyncController._init_device: load the settings; with at least one       *)
(* device, take the list and select the first device (parseMessages and    *)
(* the persisted files of this model carry selectedDevice 0).              *)
(***************************************************************************)
init_device ==
    \E disc \in DiscoveryOutcomes :
        LET g == get_data(file, color_rotation, now, disc) IN
        /\ file' = g.file
        /\ color_rotation' = g.rot
        /\ IF g.raised \/ ~g.has_devices
           THEN /\ status' = InitErrorMsg
                /\ UNCHANGED <<all_devices, selected_device>>
           ELSE IF Len(g.devices) > 0
                THEN /\ all_devices' = g.devices
                     /\ selected_device' = g.devices[1]
                     /\ status' = LoadedMsg
                ELSE UNCHANGED <<all_devices, selected_device, status>>

(***************************************************************************)
(* SyncController.__init__                                                 *)
(***************************************************************************)
Construct ==
    /\ gui_pc = "new"
    /\ init_device
    /\ gui_pc' = "idle"
    /\ UNCHANGED <<pending, sync_thread, stop_event, current_sync_mode, server,
                   monitor_brightness, music_brightness, BRIGHTNESS, now,
                   backend_ok, workers>>
    /\ UNCHANGED calc

(***************************************************************************)
(* get_selected_device: with no device selected, _init_device runs again.  *)
(***************************************************************************)
get_selected_device ==
    /\ gui_pc = "idle"
    /\ IF selected_device = NoDevice
       THEN init_device
       ELSE UNCHANGED <<file, color_rotation, status, all_devices, selected_device>>
    /\ UNCHANGED <<gui_pc, pending, sync_thread, stop_event, current_sync_mode, server,
                   monitor_brightness, music_brightness, BRIGHTNESS, now,
                   backend_ok, workers>>
    /\ UNCHANGED calc

(***************************************************************************)
(* The tail of every start_* method, from the BRIGHTNESS assignment to the *)
(* final set_status: creates the socket, clears the stop event, sets the   *)
(* mode and starts the thread.                                             *)
(***************************************************************************)
\* Mutant of spawn: the stop event is left as it is.
spawn_keeps_signal(m, ws) ==
    /\ BRIGHTNESS' = CASE m = "monitor" -> [BRIGHTNESS EXCEPT !.monitor = monitor_brightness]
                       [] m = "music"   -> [BRIGHTNESS EXCEPT !.music = music_brightness]
                       [] OTHER         -> BRIGHTNESS
    /\ server' = TRUE
    /\ stop_event' = stop_event
    /\ current_sync_mode' = m
    /\ sync_thread' = FreeSlot
    /\ workers' = [ws EXCEPT ![FreeSlot] = [IdleWorker EXCEPT !.pc = "init", !.mode = m]]
    /\ status' = StartedMsg(m)

spawn(m, ws) ==
    /\ BRIGHTNESS' = CASE m = "monitor" -> [BRIGHTNESS EXCEPT !.monitor = monitor_brightness]
                       [] m = "music"   -> [BRIGHTNESS EXCEPT !.music = music_brightness]
                       [] OTHER         -> BRIGHTNESS
    /\ server' = TRUE
    /\ stop_event' = FALSE
    /\ current_sync_mode' = m
    /\ sync_thread' = FreeSlot
    /\ workers' = [ws EXCEPT ![FreeSlot] = [IdleWorker EXCEPT !.pc = "init", !.mode = m]]
    /\ status' = StartedMsg(m)

(***************************************************************************)
(* stop_sync up to the join: raise the stop signal and start waiting.      *)
(***************************************************************************)
raise_stop(cont) ==
    /\ stop_event' = TRUE
    /\ status' = <<"Stopping", current_sync_mode>>
    /\ gui_pc' = "join"
    /\ pending' = cont

\* Mutant of no_devices: the empty list is not rejected.
no_devices_unchecked(devs) == FALSE

(***************************************************************************)
(* if not self.all_devices                                                 *)
(***************************************************************************)
no_devices(devs) == devs = <<>>

(***************************************************************************)
(* start_monitor_sync, start_music_sync, start_edge_sync, start_zone_sync, *)
(* start_action_sync: reload the devices, reject when there are none, stop *)
(* a live worker, then spawn.                                              *)
(***************************************************************************)
start_sync(m) ==
    /\ gui_pc = "idle"
    /\ HasFreeSlot
    /\ \E disc \in DiscoveryOutcomes :
         LET g == get_data(file, color_rotation, now, disc) IN
         /\ file' = g.file
         /\ color_rotation' = g.rot
         /\ IF g.raised \/ ~g.has_devices
            THEN /\ status' = LoadErrorMsg
                 /\ UNCHANGED <<gui_pc, pending, sync_thread, stop_event,
                                current_sync_mode, server, all_devices,
                                BRIGHTNESS, workers>>
            ELSE /\ all_devices' = g.devices
                 /\ IF no_devices(g.devices)
                    THEN /\ status' = NoDevicesMsg
                         /\ UNCHANGED <<gui_pc, pending, sync_thread, stop_event,
                                        current_sync_mode, server, BRIGHTNESS, workers>>
                    ELSE IF thread_alive
                         THEN /\ raise_stop(m)
                              /\ UNCHANGED <<sync_thread, current_sync_mode, server,
                                             BRIGHTNESS, workers>>
                         ELSE /\ spawn(m, workers)
                              /\ UNCHANGED <<gui_pc, pending>>
    /\ UNCHANGED <<selected_device, monitor_brightness, music_brightness, now, backend_ok>>
    /\ UNCHANGED calc

(***************************************************************************)
(* stop_sync called directly.                                              *)
(***************************************************************************)
stop_sync ==
    /\ gui_pc = "idle"
    /\ IF thread_alive
       THEN raise_stop("none")
       ELSE UNCHANGED <<stop_event, status, gui_pc, pending>>
    /\ UNCHANGED <<sync_thread, current_sync_mode, server, all_devices, selected_device,
                   monitor_brightness, music_brightness, BRIGHTNESS, color_rotation,
                   file, now, backend_ok, workers>>
    /\ UNCHANGED calc

\* Mutant of join_over: a join without a timeout.
join_untimed(timed_out) == ~thread_alive

(***************************************************************************)
(* self.sync_thread.join(timeout=2) returns: the thread has exited, or the *)
(* two seconds are over.                                                   *)
(***************************************************************************)
join_over(timed_out) == timed_out \/ ~thread_alive

(***************************************************************************)
(* stop_sync after the join: the mode is reset and "Sync stopped" reported *)
(* (a warning first when the thread is still alive).                       *)
(***************************************************************************)
stop_tail ==
    /\ current_sync_mode' = "none"
    /\ status' = SyncStoppedMsg

(***************************************************************************)
(* stop_sync from the return of the join on. A thread that is still alive  *)
(* is left running (abandoned records that its join timed out). A start_*  *)
(* call that was waiting in stop_sync goes on to spawn its worker.         *)
(***************************************************************************)
join_return ==
    /\ gui_pc = "join"
    /\ \E timed_out \in BOOLEAN : join_over(timed_out)
    /\ gui_pc' = "idle"
    /\ pending' = "none"
    /\ LET left == IF thread_alive
                    THEN [workers EXCEPT ![sync_thread].abandoned = TRUE]
                    ELSE workers
       IN IF pending = "none"
          THEN /\ stop_tail
               /\ workers' = left
               /\ UNCHANGED <<sync_thread, stop_event, server, BRIGHTNESS>>
          ELSE spawn(pending, left)
    /\ UNCHANGED <<all_devices, selected_device, monitor_brightness, music_brightness,
                   color_rotation, file, now, backend_ok>>
    /\ UNCHANGED calc

\* Mutant of set_monitor_brightness: only the controller's field is set,
\* the BRIGHTNESS option the worker reads is not.
set_monitor_brightness_field_only(v) ==
    /\ gui_pc = "idle"
    /\ monitor_brightness' = v
    /\ UNCHANGED <<gui_pc, pending, sync_thread, stop_event, current_sync_mode, server,
                   all_devices, selected_device, music_brightness, color_rotation,
                   status, file, now, backend_ok, workers, BRIGHTNESS>>
    /\ UNCHANGED calc

(***************************************************************************)
(* Parameter setters                                                       *)
(***************************************************************************)
set_monitor_brightness(v) ==
    /\ gui_pc = "idle"
    /\ monitor_brightness' = v
    /\ BRIGHTNESS' = [BRIGHTNESS EXCEPT !.monitor = v]
    /\ UNCHANGED <<gui_pc, pending, sync_thread, stop_event, current_sync_mode, server,
                   all_devices, selected_device, music_brightness, color_rotation,
                   status, file, now, backend_ok, workers>>
    /\ UNCHANGED calc

set_music_brightness(v) ==
    /\ gui_pc = "idle"
    /\ music_brightness' = v
    /\ BRIGHTNESS' = [BRIGHTNESS EXCEPT !.music = v]
    /\ UNCHANGED <<gui_pc, pending, sync_thread, stop_event, current_sync_mode, server,
                   all_devices, selected_device, monitor_brightness, color_rotation,
                   status, file, now, backend_ok, workers>>
    /\ UNCHANGED calc

checked_rotation(rotation) == IF rotation \in ValidRotations THEN rotation ELSE 0

set_color_rotation(rotation) ==
    /\ gui_pc = "idle"
    /\ color_rotation' = checked_rotation(rotation)
    /\ file' = IF ~file.exists
               THEN file   \* open() raises, the error is logged
               ELSE [file EXCEPT !.rot = checked_rotation(rotation), !.time = now]
    /\ UNCHANGED <<gui_pc, pending, sync_thread, stop_event, current_sync_mode, server,
                   all_devices, selected_device, monitor_brightness, music_brightness,
                   BRIGHTNESS, status, now, backend_ok, workers>>
    /\ UNCHANGED calc

set_device(device) ==
    /\ gui_pc = "idle"
    /\ selected_device' = device
    /\ status' = IF device # NoDevice THEN ReadyMsg ELSE status
    /\ UNCHANGED <<gui_pc, pending, sync_thread, stop_event, current_sync_mode, server,
                   all_devices, monitor_brightness, music_brightness, BRIGHTNESS,
                   color_rotation, file, now, backend_ok, workers>>
    /\ UNCHANGED calc

(***************************************************************************)
(* sync_task: the code before the loop. Razer mode is switched on for      *)
(* every device (a failure is caught per device), then the mode's capture  *)
(* object is built. An exception here reaches the outer except and the     *)
(* finally block.                                                          *)
(***************************************************************************)
worker_init(w) ==
    /\ workers[w].pc = "init"
    /\ LET m == workers[w].mode
           fatal == \/ m = "monitor" /\ ~backend_ok               \* ScreenGrab() raises
                    \/ m \in {"edge", "zone", "action"} /\ all_devices = <<>>  \* all_devices[0]
           n == IF m \in {"monitor", "music"} THEN GENERAL_nled
                ELSE all_devices[1].nled
       IN IF fatal
          THEN /\ workers' = [workers EXCEPT ![w].pc = "fin"]
               /\ status' = CriticalMsg(m)
          ELSE /\ workers' = [workers EXCEPT ![w].pc = "check", ![w].num_leds = n]
               /\ status' = <<ModeLabel(m), "running">>
    /\ UNCHANGED <<gui_pc, pending, sync_thread, stop_event, current_sync_mode, server,
                   all_devices, selected_device, monitor_brightness, music_brightness,
                   BRIGHTNESS, color_rotation, file, now, backend_ok>>
    /\ UNCHANGED calc

(***************************************************************************)
(* while not self.stop_event.is_set()                                      *)
(***************************************************************************)
worker_check(w) ==
    /\ workers[w].pc = "check"
    /\ workers' = [workers EXCEPT ![w].pc = IF stop_event THEN "fin" ELSE "capture"]
    /\ UNCHANGED <<gui_pc, pending, sync_thread, stop_event, current_sync_mode, server,
                   all_devices, selected_device, monitor_brightness, music_brightness,
                   BRIGHTNESS, color_rotation, status, file, now, backend_ok>>
    /\ UNCHANGED calc

(***************************************************************************)
(* Number of colors sample_screen_colors(screen, n) returns.               *)
(***************************************************************************)
sample_len(n) == IF n <= 4 THEN (IF n \in {1, 2, 3} THEN n ELSE 4) ELSE n

(***************************************************************************)
(* One iteration up to the device loop: capture and color generation.      *)
(* outcome: "ok" the capture gave data, "none" it gave None, "raise" an    *)
(* exception reached the loop's except clause.                             *)
(***************************************************************************)
capture_outcomes(m) ==
    CASE m = "monitor" -> {"ok", "none", "raise"}
      [] m = "music"   -> {"ok", "raise"}
      [] m \in {"edge", "zone"} -> IF backend_ok THEN {"ok", "none"} ELSE {"raise"}
      [] m = "action"  -> IF backend_ok THEN {"ok", "none"} ELSE {"none"}

worker_capture(w, outcome) ==
    /\ workers[w].pc = "capture"
    /\ outcome \in capture_outcomes(workers[w].mode)
    /\ LET m  == workers[w].mode
           me == workers[w]
       IN CASE outcome = "raise" ->
                 /\ workers' = [workers EXCEPT ![w].pc = "check"]
                 /\ status' = IterErrorMsg(m)
            [] outcome = "none" /\ m = "monitor" ->     \* continue
                 /\ workers' = [workers EXCEPT ![w].pc = "check"]
                 /\ UNCHANGED status
            [] OTHER ->
                 LET len == CASE m = "monitor" -> sample_len(me.num_leds)
                              [] m = "music"   -> me.num_leds
                              [] OTHER -> IF outcome = "none" THEN 0 ELSE me.num_leds
                     br  == CASE m = "monitor" -> BRIGHTNESS.monitor
                              [] m = "music"   -> BRIGHTNESS.music
                              [] OTHER         -> 100
                     direct == m # "monitor" \/ ~me.previous_colors
                 IN /\ workers' = [workers EXCEPT ![w] =
                          IF all_devices = <<>>
                          THEN [me EXCEPT !.previous_colors = (m = "monitor")]
                          ELSE
                          [me EXCEPT !.colors = len, !.bright = br,
                                     !.previous_colors = (m = "monitor"),
                                     !.devs = all_devices, !.idx = 1, !.step = 0,
                                     !.pc = IF direct THEN "send" ELSE "trans"]]
                    /\ UNCHANGED status
    /\ UNCHANGED <<gui_pc, pending, sync_thread, stop_event, current_sync_mode, server,
                   all_devices, selected_device, monitor_brightness, music_brightness,
                   BRIGHTNESS, color_rotation, file, now, backend_ok>>
    /\ UNCHANGED calc

\* Mutant of worker_send: the try/except around the whole device loop, so a
\* failing send skips the remaining devices of the iteration.
worker_send_abort(w, ok) ==
    /\ workers[w].pc = "send"
    /\ LET me == workers[w]
       IN IF ok
          THEN /\ workers' = [workers EXCEPT ![w] =
                     IF me.idx < Len(me.devs)
                     THEN [me EXCEPT !.idx = me.idx + 1]
                     ELSE [me EXCEPT !.pc = "check", !.idx = 0, !.devs = <<>>,
                                     !.colors = 0, !.bright = 0]]
               /\ UNCHANGED status
          ELSE /\ workers' = [workers EXCEPT ![w] =
                     [me EXCEPT !.pc = "check", !.idx = 0, !.devs = <<>>,
                                !.colors = 0, !.bright = 0]]
               /\ status' = IterErrorMsg(me.mode)
    /\ UNCHANGED <<gui_pc, pending, sync_thread, stop_event, current_sync_mode, server,
                   all_devices, selected_device, monitor_brightness, music_brightness,
                   BRIGHTNESS, color_rotation, file, now, backend_ok>>
    /\ UNCHANGED calc

(***************************************************************************)
(* for device in self.all_devices: one direct send of the frame, the       *)
(* exception of a failing send is caught per device.                       *)
(***************************************************************************)
next_device(me) ==
    IF me.idx < Len(me.devs)
    THEN [me EXCEPT !.idx = me.idx + 1, !.step = 0]
    ELSE \* the loop body is over: its locals are dead
         [me EXCEPT !.pc = "check", !.idx = 0, !.step = 0, !.devs = <<>>,
                    !.colors = 0, !.bright = 0]

worker_send(w, ok) ==
    /\ workers[w].pc = "send"
    /\ LET me == workers[w]
       IN IF ok
          THEN /\ workers' = [workers EXCEPT ![w] = next_device(me)]
               /\ UNCHANGED status
          ELSE /\ workers' = [workers EXCEPT ![w] = next_device(me)]
               /\ status' = SendErrorMsg
    /\ UNCHANGED <<gui_pc, pending, sync_thread, stop_event, current_sync_mode, server,
                   all_devices, selected_device, monitor_brightness, music_brightness,
                   BRIGHTNESS, color_rotation, file, now, backend_ok>>
    /\ UNCHANGED calc

(***************************************************************************)
(* monitor.smooth_transition for one device, one step of its loop: the     *)
(* interpolated frame is sent; a failing send re-raises, which ends the    *)
(* transition for this device (caught by the controller's device loop).    *)
(***************************************************************************)
worker_transition(w, ok) ==
    /\ workers[w].pc = "trans"
    /\ LET me == workers[w]
       IN IF ok
          THEN /\ workers' = [workers EXCEPT ![w] =
                     IF me.step + 1 < SmoothSteps
                     THEN [me EXCEPT !.step = me.step + 1]
                     ELSE next_device(me)]
               /\ UNCHANGED status
          ELSE /\ workers' = [workers EXCEPT ![w] = next_device(me)]
               /\ status' = SendErrorMsg
    /\ UNCHANGED <<gui_pc, pending, sync_thread, stop_event, current_sync_mode, server,
                   all_devices, selected_device, monitor_brightness, music_brightness,
                   BRIGHTNESS, color_rotation, file, now, backend_ok>>
    /\ UNCHANGED calc

\* Mutant of worker_finally: the finally block without the mode reset.
worker_finally_keeps_mode(w) ==
    /\ workers[w].pc = "fin"
    /\ status' = StoppedMsg(workers[w].mode)
    /\ workers' = [workers EXCEPT ![w] = IdleWorker]
    /\ UNCHANGED <<gui_pc, pending, sync_thread, stop_event, current_sync_mode, server,
                   all_devices, selected_device, monitor_brightness, music_brightness,
                   BRIGHTNESS, color_rotation, file, now, backend_ok>>
    /\ UNCHANGED calc

(***************************************************************************)
(* sync_task's finally block, after which the thread ends.                 *)
(***************************************************************************)
worker_finally(w) ==
    /\ workers[w].pc = "fin"
    /\ current_sync_mode' = "none"
    /\ status' = StoppedMsg(workers[w].mode)
    /\ workers' = [workers EXCEPT ![w] = IdleWorker]
    /\ UNCHANGED <<gui_pc, pending, sync_thread, stop_event, server,
                   all_devices, selected_device, monitor_brightness, music_brightness,
                   BRIGHTNESS, color_rotation, file, now, backend_ok>>
    /\ UNCHANGED calc

(***************************************************************************)
(* The clock passes the staleness window of the settings file.             *)
(***************************************************************************)
TickDay ==
    /\ now < MaxDays * (StaleAfter + 1)
    /\ now' = now + StaleAfter + 1
    /\ UNCHANGED <<gui_pc, pending, sync_thread, stop_event, current_sync_mode, server,
                   all_devices, selected_device, monitor_brightness, music_brightness,
                   BRIGHTNESS, color_rotation, status, file, backend_ok, workers>>
    /\ UNCHANGED calc

(***************************************************************************)
(* sync/action.py: ActionSyncMode. Brightness is in hundredths, time in    *)
(* ticks of 0.05 s, a color is an <<r, g, b>> triple.                      *)
(***************************************************************************)
FLASH_THRESHOLD    == 30
FLASH_DURATION     == 10
FLASH_FADE_TIME    == 4
InitLastBrightness == 50

MaxClock == 12       \* ticks the action mode's clock advances

NoData == [ok |-> FALSE, brightness |-> 0, vibrant |-> <<0, 0, 0>>, ambient |-> <<0, 0, 0>>]

\* What capture_data returns for a screen: its brightness, the color
\* _get_most_saturated_color finds in it and the color _get_ambient_colors
\* gives every LED.
ScreenData ==
    {[ok |-> TRUE, brightness |-> b, vibrant |-> v, ambient |-> a] :
        b \in {10, 50, 80, 81}, v \in {<<255, 200, 0>>}, a \in {<<0, 30, 101>>, <<64, 64, 64>>}}

\* ActionSyncMode.__init__
ActionInit(devs) ==
    /\ action_mode \in {[num_leds |-> d.nled, last_brightness |-> InitLastBrightness,
                          flash_end_time |-> 0, flash_color |-> <<>>,
                          normal_colors |-> <<>>] : d \in devs}
    /\ clock = 0
    /\ frame = <<>>

replicate(color, n) == [i \in 1..n |-> color]

detect_flash_inclusive(current_brightness) ==
    current_brightness - action_mode.last_brightness >= FLASH_THRESHOLD

detect_flash(current_brightness) ==
    current_brightness - action_mode.last_brightness > FLASH_THRESHOLD

\* int(start + (end - start) * progress) with progress = num / den
interpolate_channel(start, end, num, den) == (start * den + (end - start) * num) \div den

interpolate_colors(start_colors, end_colors, num, den) ==
    [i \in 1..(IF Len(start_colors) < Len(end_colors)
                THEN Len(start_colors) ELSE Len(end_colors)) |->
        [c \in 1..3 |-> interpolate_channel(start_colors[i][c], end_colors[i][c], num, den)]]

\* Mutant of flashing: the flash still counts at flash_end_time itself.
flashing_inclusive == clock <= action_mode.flash_end_time

flashing == clock < action_mode.flash_end_time

elapsed == clock - (action_mode.flash_end_time - FLASH_DURATION)

generate_colors(data) ==
    /\ IF ~data.ok
       THEN /\ frame' = <<>>
            /\ UNCHANGED action_mode
       ELSE IF flashing
       THEN /\ frame' = IF elapsed < FLASH_FADE_TIME    \* fade_progress > 0
                        THEN interpolate_colors(action_mode.flash_color,
                                                action_mode.normal_colors,
                                                elapsed, FLASH_FADE_TIME)
                        ELSE action_mode.normal_colors
            /\ UNCHANGED action_mode
       ELSE IF detect_flash(data.brightness)
       THEN /\ action_mode' =
                  [action_mode EXCEPT
                      !.flash_color = replicate(data.vibrant, action_mode.num_leds),
                      !.normal_colors = replicate(data.ambient, action_mode.num_leds),
                      !.flash_end_time = clock + FLASH_DURATION]
            /\ frame' = replicate(data.vibrant, action_mode.num_leds)
       ELSE /\ action_mode' =
                  [action_mode EXCEPT
                      !.normal_colors = replicate(data.ambient, action_mode.num_leds),
                      !.last_brightness = data.brightness]
            /\ frame' = replicate(data.ambient, action_mode.num_leds)
    /\ UNCHANGED <<clock, controller, codec_vars, loader_vars, rotation_vars, transition_vars,
                   session_vars, later_vars>>

\* time passes between two iterations of the action worker
action_tick ==
    /\ clock < MaxClock
    /\ clock' = clock + 1
    /\ UNCHANGED <<action_mode, frame, controller, codec_vars, loader_vars, rotation_vars, transition_vars,
                   session_vars, later_vars>>

(***************************************************************************)
(* utils.convert_colors, the frame codec, and the scripts under tests/     *)
(* that call it. A byte is a number in 0..255; a base64 text is the list   *)
(* of its characters' 6-bit values, Pad (64) standing for "=".             *)
(***************************************************************************)
MaxColors == 3       \* length of the short color lists tried

MaxLeds == 255                        \* the count byte's capacity
Header  == <<187, 0, 250, 176, 0>>    \* five fixed bytes, the same in every packet
Pad     == 64

Palette == {<<255, 0, 0>>, <<0, 255, 0>>, <<18, 52, 86>>}

\* discover_led_count.test_led_count: red, green, blue in turn
Pattern(n) ==
    [i \in 1..n |-> CASE (i - 1) % 3 = 0 -> <<255, 0, 0>>
                      [] (i - 1) % 3 = 1 -> <<0, 255, 0>>
                      [] OTHER           -> <<0, 0, 255>>]

RECURSIVE ListsOf(_, _)
ListsOf(S, n) ==
    IF n = 0 THEN {<<>>}
    ELSE LET shorter == ListsOf(S, n - 1)
         IN shorter \cup {Append(l, c) : l \in {x \in shorter : Len(x) = n - 1}, c \in S}

ColorLists == ListsOf(Palette, MaxColors) \cup {Pattern(MaxLeds), Pattern(MaxLeds + 1)}

RECURSIVE xor(_, _)
xor(a, b) ==
    IF a = 0 THEN b
    ELSE IF b = 0 THEN a
    ELSE (((a % 2) + (b % 2)) % 2) + (2 * xor(a \div 2, b \div 2))

\* three bytes per color, in list order
color_bytes_bgr(cs) == [k \in 1..(3 * Len(cs)) |-> cs[((k - 1) \div 3) + 1][3 - ((k - 1) % 3)]]

color_bytes(cs) == [k \in 1..(3 * Len(cs)) |-> cs[((k - 1) \div 3) + 1][((k - 1) % 3) + 1]]

\* XOR of bytes[lo..hi], 0 for an empty range (halved, XOR being
\* associative, to keep the evaluation shallow)
RECURSIVE xor_range(_, _, _)
xor_range(bytes, lo, hi) ==
    IF lo > hi THEN 0
    ELSE IF lo = hi THEN bytes[lo]
    ELSE LET mid == (lo + hi) \div 2
         IN xor(xor_range(bytes, lo, mid), xor_range(bytes, mid + 1, hi))

xor_fold_payload_only(bytes) == xor_range(bytes, Len(Header) + 1, Len(bytes))

\* the checksum: XOR of every byte written so far
xor_fold(bytes) == xor_range(bytes, 1, Len(bytes))

packet(cs) ==
    LET body == Header \o <<Len(cs)>> \o color_bytes(cs)
    IN Append(body, xor_fold(body))

\* base64.b64encode: three bytes give four characters, a short last group
\* is filled with zero bits and padded
b64encode(bs) ==
    LET n == Len(bs)
        byte(i) == IF i <= n THEN bs[i] ELSE 0
    IN [k \in 1..(4 * ((n + 2) \div 3)) |->
          LET g  == 3 * ((k - 1) \div 4)
              b1 == byte(g + 1)
              b2 == byte(g + 2)
              b3 == byte(g + 3)
          IN CASE (k - 1) % 4 = 0 -> b1 \div 4
               [] (k - 1) % 4 = 1 -> ((b1 % 4) * 16) + (b2 \div 16)
               [] (k - 1) % 4 = 2 -> IF g + 2 > n THEN Pad
                                     ELSE ((b2 % 16) * 4) + (b3 \div 64)
               [] OTHER           -> IF g + 3 > n THEN Pad ELSE b3 % 64]

\* base64.b64decode
b64decode(t) ==
    LET pads == Cardinality({k \in 1..Len(t) : t[k] = Pad})
        six(i) == IF t[i] = Pad THEN 0 ELSE t[i]
    IN [k \in 1..((3 * (Len(t) \div 4)) - pads) |->
          LET g == 4 * ((k - 1) \div 3)
          IN CASE (k - 1) % 3 = 0 -> (six(g + 1) * 4) + (six(g + 2) \div 16)
               [] (k - 1) % 3 = 1 -> ((six(g + 2) % 16) * 16) + (six(g + 3) \div 4)
               [] OTHER           -> ((six(g + 3) % 4) * 64) + six(g + 4)]

NotEncoded == [state |-> "none", text |-> <<>>]

convert_colors_uncapped(cs) == [state |-> "ok", text |-> b64encode(packet(cs))]

convert_colors(cs) ==
    IF Len(cs) > MaxLeds
    THEN [state |-> "error", text |-> <<>>]     \* capacity error, no byte written
    ELSE [state |-> "ok", text |-> b64encode(packet(cs))]

CodecInit(lists) ==
    /\ colors \in lists
    /\ encoded = NotEncoded
    /\ decoded_bytes = <<>>
    /\ wire = <<>>

\* encoded = utils.convert_colors(colors)
codec_encode ==
    /\ encoded.state = "none"
    /\ encoded' = convert_colors(colors)
    /\ UNCHANGED <<colors, decoded_bytes, wire, controller, action_vars, loader_vars, rotation_vars, transition_vars,
                   session_vars, later_vars>>

\* connection.send_razer_data(server, device, encoded); skipped when
\* convert_colors raised
codec_send ==
    /\ encoded.state = "ok"
    /\ wire = <<>>
    /\ wire' = <<encoded.text>>
    /\ UNCHANGED <<colors, encoded, decoded_bytes, controller, action_vars, loader_vars, rotation_vars, transition_vars,
                   session_vars, later_vars>>

\* decoded_bytes = list(base64.b64decode(encoded))
codec_decode ==
    /\ encoded.state = "ok"
    /\ decoded_bytes = <<>>
    /\ decoded_bytes' = b64decode(encoded.text)
    /\ UNCHANGED <<colors, encoded, wire, controller, action_vars, loader_vars, rotation_vars, transition_vars,
                   session_vars, later_vars>>

\* analyze_encoding's checksum loop over decoded_bytes[:-1]
checksum_calculated(bytes) == xor_range(bytes, 1, Len(bytes) - 1)

(***************************************************************************)
(* devices.get_data called on its own: the caller keeps what it returns,   *)
(* or sees the exception it lets through.                                  *)
(***************************************************************************)
NotLoaded == [state |-> "none", has_devices |-> FALSE, devices |-> <<>>]

LoaderInit == settings = NotLoaded

load_data ==
    /\ \E disc \in DiscoveryOutcomes :
         LET g == get_data(file, color_rotation, now, disc) IN
         /\ file' = g.file
         /\ color_rotation' = g.rot
         /\ settings' = [state |-> IF g.raised THEN "raised" ELSE "returned",
                         has_devices |-> g.has_devices, devices |-> g.devices]
    /\ UNCHANGED <<gui_pc, pending, sync_thread, stop_event, current_sync_mode, server,
                   all_devices, selected_device, monitor_brightness, music_brightness,
                   BRIGHTNESS, status, now, backend_ok, workers>>
    /\ UNCHANGED <<action_vars, codec_vars, rotation_vars, transition_vars, session_vars, later_vars>>

(***************************************************************************)
(* Time passes between two calls: StaleAfter seconds or one second more.   *)
(***************************************************************************)
wait(dt) ==
    /\ now + dt <= MaxDays * (StaleAfter + 1)
    /\ now' = now + dt
    /\ UNCHANGED <<gui_pc, pending, sync_thread, stop_event, current_sync_mode, server,
                   all_devices, selected_device, monitor_brightness, music_brightness,
                   BRIGHTNESS, color_rotation, status, file, backend_ok, workers>>
    /\ UNCHANGED calc

(***************************************************************************)
(* sync/monitor.py: _apply_rotation. Lists are indexed from 1 here, the    *)
(* mapping keeps the source's positions 0..3.                              *)
(***************************************************************************)
NotRotated == [state |-> "none", colors |-> <<>>]

RotationInit(lists, angles) ==
    /\ sampled \in lists
    /\ angle \in angles
    /\ rotated = NotRotated

\* Mutant of rotation_map: the 90 degree mapping names position 3 twice.
rotation_map_repeating == [r \in {0, 90, 180, 270} |->
    CASE r = 0   -> <<0, 1, 2, 3>>
      [] r = 90  -> <<2, 0, 3, 3>>
      [] r = 180 -> <<3, 2, 1, 0>>
      [] r = 270 -> <<1, 3, 0, 2>>]

\* Mutant of rotation_map: the 270 degree mapping swaps the two rows.
rotation_map_row_swap == [r \in {0, 90, 180, 270} |->
    CASE r = 0   -> <<0, 1, 2, 3>>
      [] r = 90  -> <<2, 0, 3, 1>>
      [] r = 180 -> <<3, 2, 1, 0>>
      [] r = 270 -> <<2, 3, 0, 1>>]

rotation_map == [r \in {0, 90, 180, 270} |->
    CASE r = 0   -> <<0, 1, 2, 3>>
      [] r = 90  -> <<2, 0, 3, 1>>
      [] r = 180 -> <<3, 2, 1, 0>>
      [] r = 270 -> <<1, 3, 0, 2>>]

_apply_rotation(cs, r) ==
    IF Len(cs) # 4 THEN cs
    ELSE IF r \notin DOMAIN rotation_map THEN cs
    ELSE IF r = 0 THEN cs
    ELSE LET mapping == rotation_map[r] IN
         [k \in 1..4 |-> cs[mapping[k] + 1]]

apply_rotation ==
    /\ rotated' = [state |-> "returned", colors |-> _apply_rotation(sampled, angle)]
    /\ UNCHANGED <<sampled, angle>>
    /\ UNCHANGED <<controller, action_vars, codec_vars, loader_vars, transition_vars,
                   session_vars, later_vars>>

\* _apply_rotation is called again with the list it has just returned.
rotate_again(b) ==
    /\ rotated.state = "returned"
    /\ sampled' = rotated.colors
    /\ angle' = b
    /\ rotated' = [state |-> "returned", colors |-> _apply_rotation(rotated.colors, b)]
    /\ UNCHANGED <<controller, action_vars, codec_vars, loader_vars, transition_vars,
                   session_vars, later_vars>>

\* The caller samples the next frame.
next_sample(lists, angles) ==
    /\ rotated.state = "returned"
    /\ sampled' \in lists
    /\ angle' \in angles
    /\ rotated' = NotRotated
    /\ UNCHANGED <<controller, action_vars, codec_vars, loader_vars, transition_vars,
                   session_vars, later_vars>>

(***************************************************************************)
(* sync/monitor.py: smooth_transition. Channels are 0..255 here. The code  *)
(* divides each channel by 255, hands it to colour.Color (which keeps the  *)
(* color as hue, saturation and lightness and converts back on .red,       *)
(* .green, .blue), blends with utils.lerp and takes int(r * 255). All of   *)
(* that is binary floating point: a value that is a whole number in exact  *)
(* arithmetic may come out just below it, and int() truncates.             *)
(***************************************************************************)
MaxSteps == 4        \* largest steps argument

NoTransition ==
    [pc |-> "none", previous_colors |-> <<>>, colors |-> <<>>, steps |-> 0,
     step |-> 0, sent |-> <<>>]

TransitionInit == transition = NoTransition

\* int(r * 255) for the exact value num / den.
int_of(num, den) ==
    IF num % den = 0 /\ num > 0
    THEN {num \div den, (num \div den) - 1}
    ELSE {num \div den}

\* utils.lerp(a, b, step / steps) * 255 as a fraction.
lerp(a, b, step, steps) == [num |-> (a * steps) + ((b - a) * step), den |-> steps]

channel_values(a, b, step, steps) ==
    LET v == lerp(a, b, step, steps) IN int_of(v.num, v.den)

color_values(p, n, step, steps) ==
    {<<r, g, b>> : r \in channel_values(p[1], n[1], step, steps),
                   g \in channel_values(p[2], n[2], step, steps),
                   b \in channel_values(p[3], n[3], step, steps)}

\* The lists interpolated_colors can be at this step.
RECURSIVE interpolated_colors(_, _, _, _)
interpolated_colors(prev, next, step, steps) ==
    IF next = <<>> THEN {<<>>}
    ELSE {<<c>> \o rest :
             c \in color_values(Head(prev), Head(next), step, steps),
             rest \in interpolated_colors(Tail(prev), Tail(next), step, steps)}

smooth_transition(prev, next, steps) ==
    /\ transition.pc \in {"none", "returned", "raised"}
    /\ transition' = [pc |-> "loop", previous_colors |-> prev, colors |-> next,
                      steps |-> steps, step |-> 0, sent |-> <<>>]
    /\ UNCHANGED <<controller, action_vars, codec_vars, loader_vars, rotation_vars,
                   session_vars, later_vars>>

\* One pass of the loop body: the frame is computed, encoded and sent; a
\* failing send is logged and raised again.
transition_send(ok) ==
    /\ transition.pc = "loop"
    /\ transition.step < transition.steps
    /\ \E f \in interpolated_colors(transition.previous_colors, transition.colors,
                                     transition.step, transition.steps) :
          transition' =
             IF ok
             THEN [transition EXCEPT !.step = @ + 1,
                                     !.sent = Append(@, [step |-> transition.step,
                                                         colors |-> f])]
             ELSE [transition EXCEPT !.pc = "raised"]
    /\ UNCHANGED <<controller, action_vars, codec_vars, loader_vars, rotation_vars,
                   session_vars, later_vars>>

\* range(steps) is used up.
transition_return ==
    /\ transition.pc = "loop"
    /\ transition.step = transition.steps
    /\ transition' = [transition EXCEPT !.pc = "returned"]
    /\ UNCHANGED <<controller, action_vars, codec_vars, loader_vars, rotation_vars,
                   session_vars, later_vars>>

(***************************************************************************)
(* start_monitor_sync.sync_task with its frames told apart: the colors     *)
(* computed by the k-th iteration that gets as far as apply_brightness are *)
(* frame k; previous_colors is a frame number, None is 0. devs is          *)
(* self.all_devices. sends records every call of send_razer_data (direct)  *)
(* and of smooth_transition, whether it raised or not.                     *)
(***************************************************************************)
MaxFrames == 3       \* frames one session computes

None == 0

SessionInit(lists) ==
    /\ monitor_task \in {[pc |-> "loop", devs |-> l, computed |-> 0, colors |-> None,
                           previous_colors |-> None, idx |-> 0] : l \in lists}
    /\ sends = <<>>

\* One iteration up to the device loop. outcome: "ok" colors were computed,
\* "none" capture() gave None (continue), "raise" an exception reached the
\* loop's except clause.
session_capture(outcome) ==
    /\ monitor_task.pc = "loop"
    /\ monitor_task.computed < MaxFrames
    /\ monitor_task' =
          IF outcome # "ok" THEN monitor_task
          ELSE LET k == monitor_task.computed + 1 IN
               IF monitor_task.previous_colors = None
               THEN [monitor_task EXCEPT !.computed = k, !.colors = k,
                                         !.previous_colors = k,
                                         !.idx = 1, !.pc = "direct"]
               ELSE [monitor_task EXCEPT !.computed = k, !.colors = k,
                                         !.idx = 1, !.pc = "transition"]
    /\ UNCHANGED sends
    /\ UNCHANGED <<controller, action_vars, codec_vars, loader_vars, rotation_vars,
                   transition_vars, later_vars>>

\* First frame: convert_colors and send_razer_data for the next device.
session_direct(ok) ==
    /\ monitor_task.pc = "direct"
    /\ sends' = Append(sends, [kind |-> "direct", device |-> monitor_task.idx,
                                start |-> None,
                                colors |-> monitor_task.colors, ok |-> ok])
    /\ monitor_task' =
          IF monitor_task.idx < Len(monitor_task.devs)
          THEN [monitor_task EXCEPT !.idx = @ + 1]
          ELSE [monitor_task EXCEPT !.pc = "loop", !.idx = 0]
    /\ UNCHANGED <<controller, action_vars, codec_vars, loader_vars, rotation_vars,
                   transition_vars, later_vars>>

\* Mutant of session_transition: previous_colors is never updated.
session_transition_keeps_previous(ok) ==
    /\ monitor_task.pc = "transition"
    /\ sends' = Append(sends, [kind |-> "transition", device |-> monitor_task.idx,
                                start |-> monitor_task.previous_colors,
                                colors |-> monitor_task.colors, ok |-> ok])
    /\ monitor_task' =
          IF monitor_task.idx < Len(monitor_task.devs)
          THEN [monitor_task EXCEPT !.idx = @ + 1]
          ELSE [monitor_task EXCEPT !.pc = "loop", !.idx = 0]
    /\ UNCHANGED <<controller, action_vars, codec_vars, loader_vars, rotation_vars,
                   transition_vars, later_vars>>

\* Later frames: smooth_transition for the next device; after the last
\* device previous_colors = colors.
session_transition(ok) ==
    /\ monitor_task.pc = "transition"
    /\ sends' = Append(sends, [kind |-> "transition", device |-> monitor_task.idx,
                                start |-> monitor_task.previous_colors,
                                colors |-> monitor_task.colors, ok |-> ok])
    /\ monitor_task' =
          IF monitor_task.idx < Len(monitor_task.devs)
          THEN [monitor_task EXCEPT !.idx = @ + 1]
          ELSE [monitor_task EXCEPT !.pc = "loop", !.idx = 0,
                                    !.previous_colors = monitor_task.colors]
    /\ UNCHANGED <<controller, action_vars, codec_vars, loader_vars, rotation_vars,
                   transition_vars, later_vars>>

\* while not self.stop_event.is_set() ends the loop.
session_stop ==
    /\ monitor_task.pc = "loop"
    /\ monitor_task' = [monitor_task EXCEPT !.pc = "stopped"]
    /\ UNCHANGED sends
    /\ UNCHANGED <<controller, action_vars, codec_vars, loader_vars, rotation_vars,
                   transition_vars, later_vars>>

(***************************************************************************)
(* One worker loop with everything it hands to the devices. kind           *)
(* "sync_task" is a sync_task of the controller (the five of them have the *)
(* same shape: switch Razer mode on for every device of self.all_devices,  *)
(* loop, finally); kind "run" is BaseSyncMode.run on its one device.       *)
(* Devices are numbers. A switch command or a send that raises is caught   *)
(* where it is made, so events records the attempts.                       *)
(***************************************************************************)
MaxIterations == 2   \* loop iterations of one worker that capture

TaskLists ==
    {[i \in 1..n |-> i] : n \in 0..MaxDevices} \cup {<<d>> : d \in 1..MaxDevices}

NoTask == [kind |-> "none", pc |-> "done", loop_devices |-> <<>>, idx |-> 0,
           iterations |-> 0]

TaskIdle ==
    /\ task = NoTask
    /\ registered = <<>>
    /\ task_stop = FALSE
    /\ events = <<>>

\* A sync_task thread has just been started by a start_* method (which
\* has checked that self.all_devices is not empty), or run() was called.
TaskInit ==
    /\ registered \in TaskLists \ {<<>>}
    /\ task \in {[kind |-> k, pc |-> "enable", loop_devices |-> registered, idx |-> 1,
                   iterations |-> 0] : k \in {"sync_task", "run"}}
    /\ task.kind = "run" => Len(registered) = 1
    /\ task_stop = FALSE
    /\ events = <<>>

event(kind, device) == [kind |-> kind, device |-> device]

\* connection.switch_razer(self.server, device, True) for the next device.
enable_razer_mode ==
    /\ task.pc = "enable"
    /\ events' = Append(events, event("on", task.loop_devices[task.idx]))
    /\ task' = IF task.idx < Len(task.loop_devices)
               THEN [task EXCEPT !.idx = @ + 1]
               ELSE [task EXCEPT !.pc = "check", !.idx = 0, !.loop_devices = <<>>]
    /\ UNCHANGED <<registered, task_stop>>
    /\ UNCHANGED <<controller, earlier_vars, music_vars, sampling_vars>>

\* Mutant of loop_test: the stop event is not looked at.
loop_test_blind ==
    /\ task.pc = "check"
    /\ task' = [task EXCEPT !.pc = "capture"]
    /\ UNCHANGED <<registered, task_stop, events>>
    /\ UNCHANGED <<controller, earlier_vars, music_vars, sampling_vars>>

\* while not self.stop_event.is_set()
loop_test ==
    /\ task.pc = "check"
    /\ task' = [task EXCEPT !.pc = IF task_stop THEN "finally" ELSE "capture"]
    /\ UNCHANGED <<registered, task_stop, events>>
    /\ UNCHANGED <<controller, earlier_vars, music_vars, sampling_vars>>

\* The capture of an iteration and the color generation. With colors to
\* send, a sync_task starts its loop over self.all_devices as it is now,
\* run() sends to self.device.
capture_data(ok) ==
    /\ task.pc = "capture"
    /\ task.iterations < MaxIterations
    /\ events' = Append(events, event("capture", 0))
    /\ task' = IF ok
               THEN [task EXCEPT !.iterations = @ + 1, !.pc = "send", !.idx = 1,
                                 !.loop_devices = registered]
               ELSE [task EXCEPT !.iterations = @ + 1, !.pc = "check"]
    /\ UNCHANGED <<registered, task_stop>>
    /\ UNCHANGED <<controller, earlier_vars, music_vars, sampling_vars>>

\* for device in self.all_devices: convert_colors and send_razer_data (or
\* smooth_transition) for the next device; or the end of that loop.
send_frame ==
    /\ task.pc = "send"
    /\ IF task.idx <= Len(task.loop_devices)
       THEN /\ events' = Append(events, event("frame", task.loop_devices[task.idx]))
            /\ task' = [task EXCEPT !.idx = @ + 1]
       ELSE /\ task' = [task EXCEPT !.pc = "check", !.idx = 0, !.loop_devices = <<>>]
            /\ UNCHANGED events
    /\ UNCHANGED <<registered, task_stop>>
    /\ UNCHANGED <<controller, earlier_vars, music_vars, sampling_vars>>

\* The finally block of a controller sync_task: the mode is reset and a
\* status set; no command goes to the devices.
sync_task_finally ==
    /\ task.kind = "sync_task"
    /\ task.pc = "finally"
    /\ task' = [task EXCEPT !.pc = "done"]
    /\ UNCHANGED <<registered, task_stop, events>>
    /\ UNCHANGED <<controller, earlier_vars, music_vars, sampling_vars>>

\* The finally block of BaseSyncMode.run: disable_razer_mode().
disable_razer_mode ==
    /\ task.kind = "run"
    /\ task.pc = "finally"
    /\ events' = Append(events, event("off", registered[1]))
    /\ task' = [task EXCEPT !.pc = "done"]
    /\ UNCHANGED <<registered, task_stop>>
    /\ UNCHANGED <<controller, earlier_vars, music_vars, sampling_vars>>

\* stop_sync, or BaseSyncMode.stop: the stop event is set.
set_stop_event ==
    /\ task.pc # "done"
    /\ ~task_stop
    /\ task_stop' = TRUE
    /\ UNCHANGED <<task, registered, events>>
    /\ UNCHANGED <<controller, earlier_vars, music_vars, sampling_vars>>

\* A start_* method is called while the sync_task runs and get_data gives
\* devs: self.all_devices is replaced first; with no devices the call is
\* rejected, otherwise it goes on to stop_sync, which sets the stop event.
start_while_running(devs) ==
    /\ task.kind = "sync_task"
    /\ task.pc # "done"
    /\ registered' = devs
    /\ task_stop' = IF devs = <<>> THEN task_stop ELSE TRUE
    /\ UNCHANGED <<task, events>>
    /\ UNCHANGED <<controller, earlier_vars, music_vars, sampling_vars>>

(***************************************************************************)
(* start_music_sync.sync_task: the rolling color buffer COLORS.current.    *)
(* An amplitude is in thousandths.                                         *)
(***************************************************************************)
Amplitudes == {0, 20, 39, 40, 79, 80, 1000}

MusicIdle == COLORS_current = <<>>

\* int(amp * 255)
amp_channel(amp) == (amp * 255) \div 1000

\* match amp: the band decides the channel
wave_color(amp) ==
    IF amp < 40 THEN <<amp_channel(amp), 0, 0>>
    ELSE IF amp < 80 THEN <<0, amp_channel(amp), 0>>
    ELSE <<0, 0, amp_channel(amp)>>

\* COLORS.current = [(0, 0, 0)] * GENERAL.nled
music_init ==
    /\ COLORS_current = <<>>
    /\ COLORS_current' = replicate(<<0, 0, 0>>, GENERAL_nled)
    /\ UNCHANGED <<controller, earlier_vars, task_vars, sampling_vars>>

\* Mutant of music_iteration: the color enters at the front and the last
\* entry is dropped.
music_iteration_front(amp, ok) ==
    /\ COLORS_current # <<>>
    /\ COLORS_current' = IF ok THEN SubSeq(<<wave_color(amp)>> \o COLORS_current, 1,
                                            Len(COLORS_current))
                          ELSE COLORS_current
    /\ UNCHANGED <<controller, earlier_vars, task_vars, sampling_vars>>

\* One pass of the loop: record, get_amplitude, append the color, pop(0).
\* ok is FALSE when the recorder or get_amplitude raises, which happens
\* before the append.
music_iteration(amp, ok) ==
    /\ COLORS_current # <<>>
    /\ COLORS_current' = IF ok THEN Tail(Append(COLORS_current, wave_color(amp)))
                          ELSE COLORS_current
    /\ UNCHANGED <<controller, earlier_vars, task_vars, sampling_vars>>

(***************************************************************************)
(* sync/monitor.py, sync/base_sync.py, sync/edge.py: where the sampling    *)
(* functions take their colors from. An image is its size; a box is the    *)
(* pixels x1 <= x < x2, y1 <= y < y2, as PIL's crop takes them. A sample   *)
(* names the cell or segment a color stands for and the pixels the color   *)
(* is chosen among (one pixel for the grid, a region for the vibrance      *)
(* search, which picks by content).                                        *)
(***************************************************************************)
MaxEdgeLeds == 8     \* largest num_leds of an edge mode
MaxRegion == 4       \* largest side of a region handed to the vibrance search

Screens == {[width |-> 1920, height |-> 1080], [width |-> 640, height |-> 480]}

box(x1, y1, x2, y2) == [x1 |-> x1, y1 |-> y1, x2 |-> x2, y2 |-> y2]

NoBox == box(0, 0, 0, 0)

max2(a, b) == IF a >= b THEN a ELSE b

min2(a, b) == IF a <= b THEN a ELSE b

\* int(np.sqrt(num_colors))
int_sqrt(n) == CHOOSE c \in 0..16 : c * c <= n /\ n < (c + 1) * (c + 1)

\* int(k * (size / parts)) in double arithmetic, for the sizes of Screens:
\* the quotient is rounded, and for 11 and 13 parts of 1920 or 480 the
\* product with the number of parts comes out just below the size
\* (11 * (1920 / 11) = 1919.9999999999998); every other product of this
\* model truncates to the exact floor.
int_times(k, size, parts) ==
    IF k = parts /\ parts \in {11, 13} /\ size \in {1920, 480}
    THEN size - 1
    ELSE (k * size) \div parts

\* _get_most_vibrant_color: the region it crops around the center.
_get_most_vibrant_color(img, center_x, center_y, region_size) ==
    box(max2(0, center_x - (region_size[1] \div 2)),
        max2(0, center_y - (region_size[2] \div 2)),
        min2(img.width, center_x + (region_size[1] \div 2)),
        min2(img.height, center_y + (region_size[2] \div 2)))

\* BaseSyncMode.get_vibrant_color_from_region (an empty crop makes the
\* search raise, and the fallback gray is returned).
get_vibrant_color_from_region(img, x1, y1, x2, y2) ==
    _get_most_vibrant_color(img, (x1 + x2) \div 2, (y1 + y2) \div 2,
                            <<x2 - x1, y2 - y1>>)

positions(num_colors) ==
    CASE num_colors = 1 -> <<<<50, 50>>>>
      [] num_colors = 2 -> <<<<25, 50>>, <<75, 50>>>>
      [] num_colors = 3 -> <<<<25, 25>>, <<75, 25>>, <<50, 75>>>>
      [] OTHER -> <<<<20, 20>>, <<80, 20>>, <<20, 80>>, <<80, 80>>>>

_sample_strategic(img, num_colors) ==
    LET region_size == <<img.width \div 10, img.height \div 10>>
        center_x(i) == max2(0, min2((positions(num_colors)[i][1] * img.width) \div 100,
                                    img.width - 1))
        center_y(i) == max2(0, min2((positions(num_colors)[i][2] * img.height) \div 100,
                                    img.height - 1))
        found(i) == _get_most_vibrant_color(img, center_x(i), center_y(i), region_size)
    IN _apply_rotation([i \in 1..Len(positions(num_colors)) |->
                            [cell |-> found(i), examined |-> found(i)]],
                       color_rotation)

_sample_grid(img, num_colors) ==
    LET cols == int_sqrt(num_colors)
        rows == (num_colors + cols - 1) \div cols
        cell(row, col) == box(int_times(col, img.width, cols),
                              int_times(row, img.height, rows),
                              int_times(col + 1, img.width, cols),
                              int_times(row + 1, img.height, rows))
        center(b) == box(b.x1 + ((b.x2 - b.x1) \div 2), b.y1 + ((b.y2 - b.y1) \div 2),
                         b.x1 + ((b.x2 - b.x1) \div 2) + 1,
                         b.y1 + ((b.y2 - b.y1) \div 2) + 1)
    IN [k \in 1..min2(num_colors, rows * cols) |->
           [cell |-> cell((k - 1) \div cols, (k - 1) % cols),
            examined |-> center(cell((k - 1) \div cols, (k - 1) % cols))]]

sample_screen_colors(img, num_colors) ==
    IF num_colors <= 4 THEN _sample_strategic(img, num_colors)
    ELSE _sample_grid(img, num_colors)

\* Mutant of _segment_and_sample: the last segment is as long as the others.
_segment_and_sample_equal(edge_region, position, num_leds) ==
    LET along == IF position \in {"top", "bottom"} THEN edge_region.width
                 ELSE edge_region.height
        segment == along \div num_leds
        lo(i) == (i - 1) * segment
        hi(i) == lo(i) + segment
        asked(i) == IF position \in {"top", "bottom"}
                    THEN box(lo(i), 0, hi(i), edge_region.height)
                    ELSE box(0, lo(i), edge_region.width, hi(i))
    IN [i \in 1..num_leds |->
           [cell |-> asked(i),
            examined |-> get_vibrant_color_from_region(edge_region, asked(i).x1, asked(i).y1,
                                                       asked(i).x2, asked(i).y2)]]

\* EdgeSyncMode._segment_and_sample: the segments in the strip's own
\* coordinates, each handed to get_vibrant_color_from_region.
_segment_and_sample(edge_region, position, num_leds) ==
    LET along == IF position \in {"top", "bottom"} THEN edge_region.width
                 ELSE edge_region.height
        segment == along \div num_leds
        lo(i) == (i - 1) * segment
        hi(i) == IF i < num_leds THEN lo(i) + segment ELSE along
        asked(i) == IF position \in {"top", "bottom"}
                    THEN box(lo(i), 0, hi(i), edge_region.height)
                    ELSE box(0, lo(i), edge_region.width, hi(i))
    IN [i \in 1..num_leds |->
           [cell |-> asked(i),
            examined |-> get_vibrant_color_from_region(edge_region, asked(i).x1, asked(i).y1,
                                                       asked(i).x2, asked(i).y2)]]

\* The size of the strip EdgeSyncMode._sample_edge_strip crops: 10% of the
\* height at the top or bottom, 10% of the width at the left or right.
edge_region(img, position) ==
    IF position \in {"top", "bottom"}
    THEN [width |-> img.width, height |-> img.height \div 10]
    ELSE [width |-> img.width \div 10, height |-> img.height]

_sample_edge_strip(img, position, num_leds) ==
    _segment_and_sample(edge_region(img, position), position, num_leds)

EdgePositions == {"top", "bottom", "left", "right"}

NoRequest == [fn |-> "none", n |-> 0, position |-> "none", region |-> NoBox]

NotSampled == [state |-> "none", list |-> <<>>]

SamplingIdle ==
    /\ screen = [width |-> 0, height |-> 0]
    /\ request = NoRequest
    /\ samples = NotSampled

\* The regions tried: near the image's corner, sides of 1 to MaxRegion.
Regions ==
    {box(x1, y1, x1 + w, y1 + h) : x1 \in 0..1, y1 \in 0..1, w \in 1..MaxRegion,
                                   h \in {1, MaxRegion}}

Requests ==
    {[NoRequest EXCEPT !.fn = "sample_screen_colors", !.n = n] : n \in 0..MaxLeds}
    \cup {[NoRequest EXCEPT !.fn = "_sample_edge_strip", !.n = n, !.position = p] :
             n \in 1..MaxEdgeLeds, p \in EdgePositions}
    \cup {[NoRequest EXCEPT !.fn = "get_vibrant_color_from_region", !.region = b] :
             b \in Regions}

SamplingInit ==
    /\ screen \in Screens
    /\ request \in Requests
    /\ samples = NotSampled

returns(list) ==
    /\ samples.state = "none"
    /\ samples' = [state |-> "returned", list |-> list]
    /\ UNCHANGED <<screen, request>>
    /\ UNCHANGED <<controller, earlier_vars, task_vars, music_vars>>

call_sample_screen_colors ==
    /\ request.fn = "sample_screen_colors"
    /\ returns(sample_screen_colors(screen, request.n))

call_sample_edge_strip ==
    /\ request.fn = "_sample_edge_strip"
    /\ returns(_sample_edge_strip(screen, request.position, request.n))

call_get_vibrant_color_from_region ==
    /\ request.fn = "get_vibrant_color_from_region"
    /\ returns(<<[cell |-> request.region,
                  examined |-> get_vibrant_color_from_region(
                                   screen, request.region.x1, request.region.y1,
                                   request.region.x2, request.region.y2)]>>)

\* The worker functions of this part at rest.
LaterIdle == TaskIdle /\ MusicIdle /\ SamplingIdle

(***************************************************************************)
(* Specifications.                                                         *)
(*                                                                         *)
(* Spec: the session life cycle. The caller starts and stops sessions of   *)
(* every mode while the worker threads run; the settings file is one of    *)
(* SessionFiles and the parameters keep their initial values.              *)
(***************************************************************************)
SettingsFile(has, devs, rot) ==
    [exists |-> TRUE, has_devices |-> has, devices |-> devs, rot |-> rot, time |-> 0]

AllFiles ==
    {NoFile}
    \cup {SettingsFile(TRUE, d, r) : d \in DeviceLists, r \in RotationInputs \cup {NoRotation}}
    \cup {SettingsFile(FALSE, <<>>, r) : r \in RotationInputs \cup {NoRotation}}

FullList == [i \in 1..MaxDevices |-> Network(i)]

SessionFiles ==
    {NoFile, SettingsFile(TRUE, FullList, NoRotation), SettingsFile(FALSE, <<>>, NoRotation)}

ControllerInit(files, backends) ==
    /\ gui_pc = "new"
    /\ pending = "none"
    /\ sync_thread = 0
    /\ stop_event = FALSE
    /\ current_sync_mode = "none"
    /\ server = FALSE
    /\ all_devices = <<>>
    /\ selected_device = NoDevice
    /\ monitor_brightness = InitMonitorBrightness
    /\ music_brightness = InitMusicBrightness
    /\ BRIGHTNESS = [monitor |-> InitMonitorBrightness, music |-> InitMusicBrightness]
    /\ color_rotation = 0
    /\ status = NoStatus
    /\ file \in files
    /\ now = 0
    /\ backend_ok \in backends
    /\ workers = [w \in Workers |-> IdleWorker]

\* The sync-mode and codec functions at rest.
CalcIdle ==
    ActionInit({NoDevice}) /\ CodecInit({<<>>}) /\ LoaderInit
    /\ RotationInit({<<>>}, {0}) /\ TransitionInit
    /\ SessionInit({<<>>}) /\ LaterIdle

InitWith(files, backends) == ControllerInit(files, backends) /\ CalcIdle

WorkerStep(w) ==
    \/ worker_init(w)
    \/ worker_check(w)
    \/ \E o \in {"ok", "none", "raise"} : worker_capture(w, o)
    \/ \E ok \in BOOLEAN : worker_send(w, ok)
    \/ \E ok \in BOOLEAN : worker_transition(w, ok)
    \/ worker_finally(w)

Init == InitWith(SessionFiles, BOOLEAN)

Next ==
    \/ Construct
    \/ \E m \in Modes : start_sync(m)
    \/ stop_sync
    \/ join_return
    \/ \E w \in Workers : WorkerStep(w)

Spec == Init /\ [][Next]_vars

(***************************************************************************)
(* ParamsSpec: the parameter setters are called while monitor and music   *)
(* sessions (the modes that read a brightness option) run; the settings    *)
(* file holds one device and the backend is supported.                     *)
(***************************************************************************)
ParamsInit == InitWith({SettingsFile(TRUE, <<Network(1)>>, NoRotation)}, {TRUE})

Setter ==
    \/ \E v \in BrightnessInputs : set_monitor_brightness(v)
    \/ \E v \in BrightnessInputs : set_music_brightness(v)
    \/ \E r \in RotationInputs : set_color_rotation(r)
    \/ \E d \in Devices \cup {NoDevice} : set_device(d)

ParamsNext ==
    \/ Construct
    \/ \E m \in {"monitor", "music"} : start_sync(m)
    \/ stop_sync
    \/ join_return
    \/ Setter
    \/ \E w \in Workers : WorkerStep(w)

ParamsSpec == ParamsInit /\ [][ParamsNext]_vars

(***************************************************************************)
(* SettingsSpec: the settings file, the rotation and the clock, with no    *)
(* session running. The file starts as any of AllFiles.                    *)
(***************************************************************************)
SettingsInit == InitWith(AllFiles, {TRUE})

SettingsNext ==
    \/ Construct
    \/ get_selected_device
    \/ \E d \in Devices \cup {NoDevice} : set_device(d)
    \/ \E r \in RotationInputs : set_color_rotation(r)
    \/ TickDay

SettingsSpec == SettingsInit /\ [][SettingsNext]_vars

(***************************************************************************)
(* ActionSpec: one ActionSyncMode object, built for any of the devices, is *)
(* handed one captured screen after the other while time passes.           *)
(***************************************************************************)
ActionSpecInit ==
    ControllerInit({NoFile}, {TRUE}) /\ ActionInit(Devices) /\ CodecInit({<<>>}) /\ LoaderInit
    /\ RotationInit({<<>>}, {0}) /\ TransitionInit
    /\ SessionInit({<<>>}) /\ LaterIdle

ActionNext ==
    \/ \E data \in ScreenData \cup {NoData} : generate_colors(data)
    \/ action_tick

ActionSpec == ActionSpecInit /\ [][ActionNext]_vars

(***************************************************************************)
(* CodecSpec: a color list is encoded, and the result sent and decoded.    *)
(***************************************************************************)
CodecSpecInit ==
    ControllerInit({NoFile}, {TRUE}) /\ ActionInit({NoDevice}) /\ CodecInit(ColorLists)
    /\ LoaderInit /\ RotationInit({<<>>}, {0}) /\ TransitionInit
    /\ SessionInit({<<>>}) /\ LaterIdle

CodecNext ==
    \/ codec_encode
    \/ codec_send
    \/ codec_decode

CodecSpec == CodecSpecInit /\ [][CodecNext]_vars

(***************************************************************************)
(* LoaderSpec: get_data is called again and again on any settings file     *)
(* while time passes.                                                      *)
(***************************************************************************)
LoaderNext ==
    \/ load_data
    \/ \E dt \in {StaleAfter, StaleAfter + 1} : wait(dt)

LoaderSpec == InitWith(AllFiles, {TRUE}) /\ [][LoaderNext]_vars

(***************************************************************************)
(* RotationSpec: _apply_rotation on four-color lists over the palette, on  *)
(* four distinct colors and on lists of other lengths, for the four        *)
(* angles and an angle outside the mapping.                                *)
(***************************************************************************)
Corners == <<<<255, 0, 0>>, <<0, 255, 0>>, <<0, 0, 255>>, <<9, 9, 9>>>>

RotationLists ==
    {cs \in ListsOf(Palette, 4) : Len(cs) = 4}
    \cup {Corners, SubSeq(Corners, 1, 3), Pattern(8)}

RotationAngles == {0, 90, 180, 270, 45}

RotationSpecInit ==
    /\ ControllerInit({NoFile}, {TRUE})
    /\ ActionInit({NoDevice}) /\ CodecInit({<<>>}) /\ LoaderInit
    /\ RotationInit(RotationLists, RotationAngles) /\ TransitionInit
    /\ SessionInit({<<>>}) /\ LaterIdle

RotationNext ==
    \/ apply_rotation
    \/ next_sample(RotationLists, RotationAngles)

RotationSpec == RotationSpecInit /\ [][RotationNext]_vars

(***************************************************************************)
(* ComposeSpec: _apply_rotation is applied to a 4-color list with one of   *)
(* the four angles, and then again and again to its own result.            *)
(***************************************************************************)
FourAngles == RotationAngles \cap ValidRotations

ComposeSpecInit ==
    /\ ControllerInit({NoFile}, {TRUE})
    /\ ActionInit({NoDevice}) /\ CodecInit({<<>>}) /\ LoaderInit
    /\ RotationInit({cs \in RotationLists : Len(cs) = 4}, FourAngles) /\ TransitionInit
    /\ SessionInit({<<>>}) /\ LaterIdle

ComposeNext ==
    \/ apply_rotation
    \/ \E b \in FourAngles : rotate_again(b)

ComposeSpec == ComposeSpecInit /\ [][ComposeNext]_vars

(***************************************************************************)
(* TransitionSpec: smooth_transition is called with one-color lists over   *)
(* the palette and with a two-color list, for every steps value up to      *)
(* MaxSteps; each send succeeds or fails.                                  *)
(***************************************************************************)
TransitionInputs ==
    {<<(<<a>>), (<<b>>)>> : a \in Palette, b \in Palette}
    \cup {<<Pattern(2), <<Pattern(2)[2], Pattern(2)[1]>>>>}

TransitionNext ==
    \/ \E io \in TransitionInputs, steps \in 0..MaxSteps :
          smooth_transition(io[1], io[2], steps)
    \/ \E ok \in BOOLEAN : transition_send(ok)
    \/ transition_return

TransitionSpec == InitWith({NoFile}, {TRUE}) /\ [][TransitionNext]_vars

(***************************************************************************)
(* SessionSpec: one monitor sync_task over one to MaxDevices devices until *)
(* it is stopped or has computed MaxFrames frames; every capture succeeds, *)
(* gives None or raises, every send succeeds or raises.                    *)
(***************************************************************************)
SessionSpecInit ==
    /\ ControllerInit({NoFile}, {TRUE})
    /\ ActionInit({NoDevice}) /\ CodecInit({<<>>}) /\ LoaderInit
    /\ RotationInit({<<>>}, {0}) /\ TransitionInit
    /\ SessionInit(DeviceLists \ {<<>>}) /\ LaterIdle

SessionNext ==
    \/ \E outcome \in {"ok", "none", "raise"} : session_capture(outcome)
    \/ \E ok \in BOOLEAN : session_direct(ok)
    \/ \E ok \in BOOLEAN : session_transition(ok)
    \/ session_stop

SessionSpec == SessionSpecInit /\ [][SessionNext]_vars

(***************************************************************************)
(* TaskSpec: one worker loop of either kind from its start to its end,     *)
(* while the caller may stop it or call a start_* method again.            *)
(***************************************************************************)
TaskSpecInit ==
    /\ ControllerInit({NoFile}, {TRUE})
    /\ ActionInit({NoDevice}) /\ CodecInit({<<>>}) /\ LoaderInit
    /\ RotationInit({<<>>}, {0}) /\ TransitionInit
    /\ SessionInit({<<>>})
    /\ TaskInit /\ MusicIdle /\ SamplingIdle

TaskNext ==
    \/ enable_razer_mode
    \/ loop_test
    \/ \E ok \in BOOLEAN : capture_data(ok)
    \/ send_frame
    \/ sync_task_finally
    \/ disable_razer_mode
    \/ set_stop_event
    \/ \E devs \in TaskLists : start_while_running(devs)

TaskSpec == TaskSpecInit /\ [][TaskNext]_vars

(***************************************************************************)
(* MusicSpec: one music worker's buffer over any sequence of amplitudes.   *)
(***************************************************************************)
MusicNext ==
    \/ music_init
    \/ \E amp \in Amplitudes, ok \in BOOLEAN : music_iteration(amp, ok)

MusicSpec == InitWith({NoFile}, {TRUE}) /\ [][MusicNext]_vars

(***************************************************************************)
(* SamplingSpec: one call of a sampling function on a captured image:      *)
(* sample_screen_colors for every count up to MaxLeds, an edge strip for   *)
(* every position and up to MaxEdgeLeds LEDs, the vibrance search on       *)
(* small regions of even and odd sides.                                    *)
(***************************************************************************)
SamplingSpecInit ==
    /\ ControllerInit({NoFile}, {TRUE})
    /\ ActionInit({NoDevice}) /\ CodecInit({<<>>}) /\ LoaderInit
    /\ RotationInit({<<>>}, {0}) /\ TransitionInit
    /\ SessionInit({<<>>})
    /\ TaskIdle /\ MusicIdle /\ SamplingInit

SamplingNext ==
    \/ call_sample_screen_colors
    \/ call_sample_edge_strip
    \/ call_get_vibrant_color_from_region

SamplingSpec == SamplingSpecInit /\ [][SamplingNext]_vars

(***************************************************************************)
(* FairSpec: every worker thread that can take a step eventually takes     *)
(* one (its capture and send calls return), and a join with a timeout      *)
(* returns.                                                                *)
(***************************************************************************)
FairSpec ==
    /\ Spec
    /\ \A w \in Workers : WF_vars(WorkerStep(w))
    /\ WF_vars(join_return)

(***************************************************************************)
(* JoinFairSpec: only the join is fair; a worker may hang for ever.        *)
(***************************************************************************)
JoinFairSpec == Spec /\ WF_vars(join_return)

(***************************************************************************)
(* C1. At most one sync worker is running at any time.                     *)
(***************************************************************************)
Alive == {w \in Workers : is_alive(w)}

C1_AtMostOneWorker == Cardinality(Alive) <= 1

(* C1 as amended: every live worker whose join has not timed out is the    *)
(* one the controller holds in sync_thread, so at most one such worker     *)
(* runs; a second live worker is one a stop_sync join gave up on.          *)
C1_OneWorkerUnlessJoinTimedOut ==
    \A w \in Alive : ~workers[w].abandoned => sync_thread = w

C1_Witness ==
    \E v, w \in Alive : v # w /\ workers[v].abandoned /\ ~workers[w].abandoned

(***************************************************************************)
(* C2. Once stop_sync has raised the stop signal for a running worker,     *)
(* that worker eventually exits, whatever calls follow.                    *)
(***************************************************************************)
C2_StoppedWorkerExits ==
    \A w \in Workers :
        (gui_pc = "join" /\ sync_thread = w /\ is_alive(w)) ~> ~is_alive(w)

(***************************************************************************)
(* C3. stop_sync always returns, even if the worker never exits: with a    *)
(* live worker it raises the stop signal and waits, and when it returns    *)
(* the mode is None and "Sync stopped" is reported; with no live worker it *)
(* changes nothing.                                                        *)
(***************************************************************************)
C3_StopSyncReturns ==
    /\ (gui_pc = "join") ~> (gui_pc = "idle")
    /\ [][/\ (stop_sync /\ thread_alive) => (stop_event' /\ gui_pc' = "join")
          /\ (stop_sync /\ ~thread_alive) => UNCHANGED vars
          /\ (gui_pc = "join" /\ pending = "none" /\ gui_pc' = "idle")
                => (current_sync_mode' = "none" /\ status' = SyncStoppedMsg)]_vars

C3_Witness ==
    /\ gui_pc = "idle"
    /\ status = SyncStoppedMsg
    /\ current_sync_mode = "none"
    /\ thread_alive

(***************************************************************************)
(* C4. Whenever a worker exits, after a stop or after a fatal error, the   *)
(* mode is reset to None and "<mode> sync stopped" is reported.            *)
(***************************************************************************)
C4_ExitResetsMode ==
    [][\A w \in Workers :
          (is_alive(w) /\ ~is_alive(w)')
             => (current_sync_mode' = "none" /\ status' = StoppedMsg(workers[w].mode))]_vars

C4_Witness ==
    /\ ~backend_ok
    /\ status = StoppedMsg("monitor")
    /\ sync_thread # 0
    /\ ~thread_alive

(***************************************************************************)
(* C5. A start_* call whose device list is empty, or whose load raised, is *)
(* rejected: no worker, stop signal, mode and socket untouched, only a     *)
(* status message.                                                         *)
(***************************************************************************)
C5_EmptyStartRejected ==
    [][\A m \in Modes :
          (start_sync(m) /\ (all_devices' = <<>> \/ status' = LoadErrorMsg))
             => /\ status' \in {LoadErrorMsg, NoDevicesMsg}
                /\ UNCHANGED <<workers, sync_thread, stop_event, current_sync_mode,
                               server, gui_pc, pending>>]_vars

C5_Witness ==
    /\ gui_pc = "idle"
    /\ status = NoDevicesMsg
    /\ all_devices = <<>>
    /\ ~server
    /\ Alive = {}

(***************************************************************************)
(* C6. Every frame a worker sends to a device has exactly that device's    *)
(* LED count (nled) of colors.                                             *)
(***************************************************************************)
C6_FrameHasDeviceLedCount ==
    \A w \in Workers :
        workers[w].pc \in {"send", "trans"}
            => workers[w].colors = workers[w].devs[workers[w].idx].nled

(***************************************************************************)
(* C7. A send failure to one device never ends the session: the worker     *)
(* goes on with the next device of the iteration, or with the next         *)
(* iteration after the last device, and the mode stays as it is.           *)
(***************************************************************************)
C7_SendFailureIsLocal ==
    [][\A w \in Workers :
          LET me == workers[w] IN
          (worker_send(w, FALSE) \/ worker_transition(w, FALSE))
             => /\ UNCHANGED current_sync_mode
                /\ IF me.idx < Len(me.devs)
                   THEN workers'[w] = [me EXCEPT !.idx = me.idx + 1, !.step = 0]
                   ELSE workers'[w].pc = "check"]_vars

C7_Witness ==
    \E w \in Workers :
        /\ workers[w].pc \in {"send", "trans"}
        /\ workers[w].idx = 2
        /\ status = SendErrorMsg
        /\ current_sync_mode = workers[w].mode

(***************************************************************************)
(* C8. With an unsupported capture backend a session of a screen-based     *)
(* mode fails: the worker exits right after its construction step, it      *)
(* never enters its loop and sends no frame.                               *)
(***************************************************************************)
C8_UnsupportedBackendFails ==
    ~backend_ok =>
        \A w \in Workers :
            workers[w].mode \in ScreenModes => workers[w].pc \in {"init", "fin"}

(***************************************************************************)
(* C9. set_device, set_monitor_brightness, set_music_brightness and        *)
(* set_color_rotation never stop, restart or spawn a worker (thread        *)
(* handle, stop signal, mode and the threads stay as they are), and a      *)
(* running monitor or music worker scales every frame it computes by the   *)
(* brightness set last.                                                    *)
(***************************************************************************)
C9_SettersLeaveSessionAlone ==
    [][/\ Setter => UNCHANGED <<sync_thread, stop_event, current_sync_mode, workers,
                               gui_pc, pending>>
       /\ \A w \in Workers :
             (workers[w].pc = "capture" /\ workers'[w].pc \in {"send", "trans"})
                => /\ workers[w].mode = "monitor" => workers'[w].bright = monitor_brightness
                   /\ workers[w].mode = "music" => workers'[w].bright = music_brightness]_vars

C9_Witness ==
    \E w \in Workers :
        /\ workers[w].mode = "monitor"
        /\ workers[w].pc = "trans"
        /\ workers[w].bright \in BrightnessInputs
        /\ workers[w].bright # InitMonitorBrightness
        /\ sync_thread = w
        /\ ~stop_event
        /\ selected_device = NoDevice
        /\ color_rotation # 0

(***************************************************************************)
(* C10. In every reachable state GENERAL.color_rotation is one of 0, 90,   *)
(* 180, 270.                                                               *)
(***************************************************************************)
C10_RotationIsValid == color_rotation \in ValidRotations

C12_FlashHeldUntilFadeWindow ==
    [][\A data \in ScreenData :
          (generate_colors(data) /\ flashing) =>
             IF elapsed < FLASH_DURATION - FLASH_FADE_TIME
             THEN frame' = action_mode.flash_color
             ELSE frame' = interpolate_colors(action_mode.flash_color,
                                              action_mode.normal_colors,
                                              elapsed - (FLASH_DURATION - FLASH_FADE_TIME),
                                              FLASH_FADE_TIME)]_vars

(***************************************************************************)
(* C13. The last byte of every packet convert_colors encodes, as found     *)
(* after base64 decoding, is the XOR of all bytes before it.               *)
(***************************************************************************)
C13_ChecksumIsXorFold ==
    decoded_bytes # <<>> =>
        decoded_bytes[Len(decoded_bytes)] = checksum_calculated(decoded_bytes)

C13_Witness ==
    /\ Len(colors) = MaxColors
    /\ decoded_bytes # <<>>
    /\ decoded_bytes[Len(decoded_bytes)] # 0

(***************************************************************************)
(* C14. A list of n colors, n in 0..255, is encoded, and its packet has    *)
(* 7 + 3n bytes before base64: the 5 header bytes, the byte n, the colors  *)
(* in list order as R, G, B, and one more byte.                            *)
(***************************************************************************)
C14_PacketLayout ==
    LET n == Len(colors)
    IN /\ (n <= MaxLeds /\ encoded.state # "none") => encoded.state = "ok"
       /\ decoded_bytes # <<>> =>
             /\ Len(decoded_bytes) = 7 + (3 * n)
             /\ SubSeq(decoded_bytes, 1, 5) = Header
             /\ decoded_bytes[6] = n
             /\ \A i \in 1..n : \A c \in 1..3 :
                    decoded_bytes[6 + (3 * (i - 1)) + c] = colors[i][c]

C14_Witness == Len(decoded_bytes) = 7 + (3 * MaxLeds)

(***************************************************************************)
(* C15. A list of more than 255 colors is refused: convert_colors fails    *)
(* with no packet produced, and nothing is sent or decoded.                *)
(***************************************************************************)
C15_OverCapacityRejected ==
    Len(colors) > MaxLeds =>
        /\ encoded.state \in {"none", "error"}
        /\ encoded.text = <<>>
        /\ wire = <<>>
        /\ decoded_bytes = <<>>

C15_Witness == Len(colors) > MaxLeds /\ encoded.state = "error"

(***************************************************************************)
(* C16: get_data returns the persisted settings without rediscovery only   *)
(* when they are at most 86400 seconds old; whenever they are older it     *)
(* runs discovery, persists the fresh result with the current time and     *)
(* returns that fresh result.                                              *)
(*                                                                         *)
(* As the code has it: with fresh settings the file is left alone and its  *)
(* content returned; with older settings either the discovery result is    *)
(* written with the current time and returned, or (connect() raised) the   *)
(* file is left alone and an empty device list returned.                   *)
(***************************************************************************)
persisted_fresh == file.exists /\ now - file.time <= StaleAfter

persisted_stale == file.exists /\ now - file.time > StaleAfter

returned_persisted ==
    /\ file' = file
    /\ settings' = [state |-> "returned", has_devices |-> file.has_devices,
                    devices |-> file.devices]

returned_rediscovered ==
    /\ file'.exists /\ file'.has_devices
    /\ file'.time = now
    /\ settings' = [state |-> "returned", has_devices |-> TRUE,
                    devices |-> file'.devices]

returned_fallback ==
    /\ file' = file
    /\ settings' = [state |-> "returned", has_devices |-> TRUE, devices |-> <<>>]

C16_StaleRefreshedUnlessConnectFails ==
    [][load_data =>
         /\ persisted_fresh => returned_persisted
         /\ persisted_stale => (returned_rediscovered \/ returned_fallback)]_vars

\* C16 as stated: older settings are always replaced by a fresh result.
C16_StaleAlwaysRefreshed ==
    [][load_data =>
         /\ persisted_fresh => returned_persisted
         /\ persisted_stale => returned_rediscovered]_vars

\* A file that carried a rotation was refreshed after the staleness window.
C16_Witness ==
    /\ settings.state = "returned"
    /\ now = StaleAfter + 1
    /\ file.exists /\ file.time = now /\ file.rot = 90
    /\ settings.devices = file.devices
    /\ Len(settings.devices) > 0

(***************************************************************************)
(* C17: discovery and network failures are never fatal to get_data: it     *)
(* returns a settings object instead of propagating an error, including    *)
(* when no settings file exists.                                           *)
(***************************************************************************)
C17_GetDataNeverRaises == settings.state # "raised"

(***************************************************************************)
(* C18: for each rotation in {0, 90, 180, 270}, _apply_rotation on a       *)
(* 4-color list outputs a permutation of the input (every input position   *)
(* appears exactly once in the output), and rotation 0 returns the list    *)
(* unchanged.                                                              *)
(***************************************************************************)
occurrences(cs, c) == Cardinality({k \in DOMAIN cs : cs[k] = c})

colors_of(cs) == {cs[k] : k \in DOMAIN cs}

C18_RotationPermutes ==
    (rotated.state = "returned" /\ Len(sampled) = 4 /\ angle \in {0, 90, 180, 270})
        => /\ Len(rotated.colors) = 4
           /\ \A c \in colors_of(sampled) \cup colors_of(rotated.colors) :
                  occurrences(rotated.colors, c) = occurrences(sampled, c)
           /\ angle = 0 => rotated.colors = sampled

\* Four distinct colors were rotated by 90 degrees: BL, TL, BR, TR.
C18_Witness ==
    /\ rotated.state = "returned"
    /\ sampled = Corners
    /\ angle = 90
    /\ rotated.colors = <<Corners[3], Corners[1], Corners[4], Corners[2]>>

(***************************************************************************)
(* C19: smooth_transition with a given steps value sends exactly `steps`   *)
(* frames when no send fails, for t = 0, 1, ..., steps-1 in increasing     *)
(* order with blend fraction t/steps: the first frame sent equals the      *)
(* previous (start) colors and the frame for t = steps is never sent.      *)
(***************************************************************************)
frames_counted ==
    transition.pc = "returned" => Len(transition.sent) = transition.steps

frames_in_order ==
    \A k \in DOMAIN transition.sent :
        /\ transition.sent[k].step = k - 1
        /\ transition.sent[k].step < transition.steps
        /\ transition.sent[k].colors \in
              interpolated_colors(transition.previous_colors, transition.colors,
                                  k - 1, transition.steps)

first_frame_is_start ==
    transition.sent # <<>> => transition.sent[1].colors = transition.previous_colors

C19_TransitionFrames ==
    /\ frames_counted
    /\ frames_in_order
    /\ first_frame_is_start

(***************************************************************************)
(* C20: in a monitor session the first successfully sampled frame is sent  *)
(* directly, exactly once per device and without interpolation; every      *)
(* later frame is sent as an interpolated transition whose start colors    *)
(* are the frame computed in the immediately preceding successful          *)
(* iteration.                                                              *)
(***************************************************************************)
sends_of(k) == {i \in DOMAIN sends : sends[i].colors = k}

frame_done(k) ==
    monitor_task.computed > k \/ (monitor_task.computed = k /\ monitor_task.idx = 0)

C20_FirstDirectThenTransitions ==
    /\ \A i \in DOMAIN sends :
          IF sends[i].colors = 1
          THEN sends[i].kind = "direct"
          ELSE sends[i].kind = "transition" /\ sends[i].start = sends[i].colors - 1
    /\ \A k \in 1..MaxFrames :
          /\ \A i, j \in sends_of(k) : sends[i].device = sends[j].device => i = j
          /\ frame_done(k) =>
                {sends[i].device : i \in sends_of(k)} = DOMAIN monitor_task.devs

\* Three frames went to every device, whatever the sends did.
C20_Witness ==
    /\ monitor_task.computed = 3 /\ monitor_task.idx = 0
    /\ Len(monitor_task.devs) > 1
    /\ \E i \in DOMAIN sends : sends[i].colors = 3 /\ sends[i].start = 2
    /\ \E i \in DOMAIN sends : sends[i].kind = "direct" /\ ~sends[i].ok

(***************************************************************************)
(* C23: in an interpolated transition a send failure at step k for a       *)
(* device does not abort the remaining steps: steps k+1 .. steps-1 of that *)
(* transition are still computed and attempted for that device.            *)
(***************************************************************************)
C23_FailedStepDoesNotAbort ==
    transition.pc \in {"returned", "raised"}
        => \A t \in 0..(transition.steps - 1) :
              \/ \E k \in DOMAIN transition.sent : transition.sent[k].step = t
              \/ transition.pc = "raised" /\ transition.step = t

(***************************************************************************)
(* C25: action-mode flash detection compares each frame's brightness with  *)
(* the brightness of the immediately preceding processed frame: after      *)
(* every frame generate_colors has processed, the baseline _detect_flash   *)
(* reads is that frame's brightness, a flash frame and the frames of the   *)
(* flash included.                                                         *)
(***************************************************************************)
C25_BaselineIsPreviousFrame ==
    [][\A data \in ScreenData :
          generate_colors(data) => action_mode'.last_brightness = data.brightness]_vars

(***************************************************************************)
(* C26: a flash lasts exactly FLASH_DURATION and is never extended or      *)
(* re-armed while active: a generate_colors call before flash_end_time     *)
(* leaves flash_end_time, the flash color, the ambient fallback and the    *)
(* baseline unchanged; a call at or after flash_end_time is handled in     *)
(* NORMAL: it returns freshly computed ambient colors unless it detects a  *)
(* new flash, which ends FLASH_DURATION later.                             *)
(***************************************************************************)
C26_FlashNotRearmed ==
    [][\A data \in ScreenData :
          generate_colors(data) =>
             IF clock < action_mode.flash_end_time
             THEN action_mode' = action_mode
             ELSE \/ /\ frame' = replicate(data.ambient, action_mode.num_leds)
                     /\ action_mode'.normal_colors = frame'
                     /\ action_mode'.flash_end_time = action_mode.flash_end_time
                  \/ /\ data.brightness - action_mode.last_brightness > FLASH_THRESHOLD
                     /\ frame' = replicate(data.vibrant, action_mode.num_leds)
                     /\ action_mode'.flash_end_time = clock + FLASH_DURATION]_vars

\* A call exactly at flash_end_time got the ambient colors of its own screen.
C26_Witness ==
    /\ action_mode.flash_end_time = FLASH_DURATION
    /\ clock = action_mode.flash_end_time
    /\ action_mode.last_brightness = 10
    /\ frame = replicate(<<64, 64, 64>>, action_mode.num_leds)
    /\ action_mode.normal_colors = frame

(***************************************************************************)
(* C24: with several registered devices an interpolated monitor transition *)
(* is step-major: the frame for step t is sent to every device before the  *)
(* frame for step t+1 is sent to any device.                               *)
(***************************************************************************)
C24_TransitionStepMajor ==
    [][\A w \in Workers :
          (/\ workers[w].pc = "trans"
           /\ workers'[w] # workers[w]
           /\ workers[w].idx < Len(workers[w].devs))
          => /\ workers'[w].pc = "trans"
             /\ workers'[w].idx = workers[w].idx + 1
             /\ workers'[w].step = workers[w].step]_vars

(***************************************************************************)
(* C27: in Edge and Zone sessions started through the controller every     *)
(* frame sent to a device has had brightness scaling applied to the        *)
(* sampled colors before encoding (each channel is the sampled channel     *)
(* multiplied by the device brightness, truncated).                        *)
(***************************************************************************)
C27_EdgeZoneFramesScaled ==
    \A w \in Workers :
        (workers[w].pc = "send" /\ workers[w].mode \in {"edge", "zone"})
            => workers[w].bright = DEVICE_CONFIG_brightness

\* The devices named by the events of one kind, in the order of the events.
is_on(e) == e.kind = "on"

switched_on ==
    [i \in 1..Len(SelectSeq(events, is_on)) |-> SelectSeq(events, is_on)[i].device]

\* C21: when a session's worker has exited, every device that was sent a
\* mode-switch-on command by the session has been sent a mode-switch-off
\* command after it.
C21_SwitchedOffAtExit ==
    task.pc = "done"
        => \A i \in DOMAIN events :
              events[i].kind = "on"
                 => \E j \in DOMAIN events :
                       /\ j > i
                       /\ events[j].kind = "off"
                       /\ events[j].device = events[i].device

\* C22: a loop test that finds the stop event set leaves the loop, and a
\* worker that has left the loop captures nothing and sends no frame; a
\* capture is only made right after a loop test that found the event clear.
C22_NoWorkAfterStopObserved ==
    [][/\ (task.pc = "check" /\ task_stop /\ task' # task) => task'.pc = "finally"
       /\ (task.pc = "check" /\ task' # task) => events' = events
       /\ task.pc \in {"finally", "done"}
             => /\ task'.pc \in {"finally", "done"}
                /\ \A i \in DOMAIN events' :
                      i > Len(events) => events'[i].kind \notin {"capture", "frame"}]_vars

C22_Witness ==
    /\ task.pc = "done"
    /\ task_stop
    /\ \E i, j \in DOMAIN events :
          i < j /\ events[i].kind = "capture" /\ events[j].kind = "frame"

\* C28: every color frame sent to a device comes after a mode-switch-on
\* command attempted for that device in the same session.
C28_SwitchBeforeFirstFrame ==
    \A j \in DOMAIN events :
        events[j].kind = "frame"
           => \E i \in DOMAIN events :
                 /\ i < j
                 /\ events[i].kind = "on"
                 /\ events[i].device = events[j].device

\* C29: the devices a running worker sends a frame to are the devices the
\* session started with (those it switched on), whatever controller
\* operation was invoked in between.
C29_SessionDevicesFixed ==
    task.pc = "send" => task.loop_devices = switched_on

C33_ModeOfRunningSession ==
    (thread_alive /\ ~stop_event) => current_sync_mode = workers[sync_thread].mode

\* C34: the stop event is never set in front of a live worker unless a
\* stop was requested for that very worker: it is the worker stop_sync is
\* joining, or one whose join has timed out.
C34_NoStaleStopSignal ==
    \A w \in Workers :
        (is_alive(w) /\ stop_event)
            => \/ workers[w].abandoned
               \/ w = sync_thread /\ gui_pc = "join"

\* A session was stopped and its worker left behind; the worker of the
\* session started after it is past its first loop test.
C34_Witness ==
    \E v, w \in Workers :
        /\ is_alive(v) /\ workers[v].abandoned
        /\ w = sync_thread /\ ~workers[w].abandoned
        /\ workers[w].pc = "capture"
        /\ ~stop_event

\* C35: an iteration whose capture gave None goes back to the loop test
\* without a send to any device.
C35_NoFrameWithoutData ==
    [][\A w \in Workers :
          worker_capture(w, "none") => workers'[w].pc = "check"]_vars

\* C36: set_color_rotation leaves the "time" entry of settings.json as it
\* was.
C36_TimeIsDiscoveryTime ==
    [][\A r \in RotationInputs :
          set_color_rotation(r) => file'.time = file.time]_vars

\* C38: rotating a 4-color list by a and the result by b gives the list
\* rotated once by (a + b) mod 360.
C38_RotationsCompose ==
    [][\A b \in FourAngles :
          rotate_again(b)
             => /\ rotated.colors = _apply_rotation(sampled, angle)
                /\ rotated'.colors = _apply_rotation(sampled, (angle + b) % 360)]_vars

\* 90 followed by 270 has restored four distinct colors.
C38_Witness ==
    /\ rotated = [state |-> "returned", colors |-> Corners]
    /\ angle = 270
    /\ sampled = _apply_rotation(Corners, 90)

\* round(sqrt(n)), and the center pixel of a box.
round_sqrt(n) == CHOOSE c \in 0..17 : (2 * c - 1) * (2 * c - 1) <= 4 * n
                                     /\ 4 * n < (2 * c + 1) * (2 * c + 1)

center_pixel(b) ==
    box(b.x1 + ((b.x2 - b.x1) \div 2), b.y1 + ((b.y2 - b.y1) \div 2),
        b.x1 + ((b.x2 - b.x1) \div 2) + 1, b.y1 + ((b.y2 - b.y1) \div 2) + 1)

\* C31: for n > 4 sample_screen_colors returns n colors, the k-th being the
\* center pixel of the k-th cell, in row-major order, of the partition of
\* the screen into round(sqrt(n)) columns and ceil(n / columns) rows.
C31_GridOfRoundedRoot ==
    (request.fn = "sample_screen_colors" /\ request.n > 4 /\ samples.state = "returned")
        => LET n == request.n
               cols == round_sqrt(n)
               rows == (n + cols - 1) \div cols
               cell(k) == box((((k - 1) % cols) * screen.width) \div cols,
                              (((k - 1) \div cols) * screen.height) \div rows,
                              ((((k - 1) % cols) + 1) * screen.width) \div cols,
                              ((((k - 1) \div cols) + 1) * screen.height) \div rows)
           IN /\ Len(samples.list) = n
              /\ \A k \in 1..n : samples.list[k].examined = center_pixel(cell(k))

\* C32: the segments of an edge strip, in the order returned: as many as
\* LEDs, the first starts at the strip's start, each starts where the one
\* before ends, all but the last are floor(L / ledCount) long, the last ends
\* at the strip's end, and each spans the strip's whole thickness.
C32_SegmentsTileTheStrip ==
    (request.fn = "_sample_edge_strip" /\ samples.state = "returned")
        => LET n == request.n
               horizontal == request.position \in {"top", "bottom"}
               strip == edge_region(screen, request.position)
               L == IF horizontal THEN strip.width ELSE strip.height
               lo(k) == IF horizontal THEN samples.list[k].cell.x1
                        ELSE samples.list[k].cell.y1
               hi(k) == IF horizontal THEN samples.list[k].cell.x2
                        ELSE samples.list[k].cell.y2
               across(k) == IF horizontal
                            THEN <<samples.list[k].cell.y1, samples.list[k].cell.y2>>
                            ELSE <<samples.list[k].cell.x1, samples.list[k].cell.x2>>
           IN /\ Len(samples.list) = n
              /\ lo(1) = 0
              /\ hi(n) = L
              /\ \A k \in 1..n : lo(k) <= hi(k)
              /\ \A k \in 1..(n - 1) : hi(k) = lo(k + 1) /\ hi(k) - lo(k) = L \div n
              /\ \A k \in 1..n :
                    across(k) = <<0, IF horizontal THEN strip.height ELSE strip.width>>

\* Seven LEDs along the top of a 1920 pixel wide screen: six segments of
\* 274 pixels and a last one of 276.
C32_Witness ==
    /\ request.fn = "_sample_edge_strip" /\ request.position = "top" /\ request.n = 7
    /\ screen.width = 1920
    /\ samples.state = "returned"
    /\ samples.list[7].cell = box(1644, 0, 1920, 108)

\* C37: the pixels the vibrance search examines for
\* get_vibrant_color_from_region(screen, x1, y1, x2, y2) are those of the
\* region passed in, clipped to the screen.
C37_RegionExaminedAsPassed ==
    (request.fn = "get_vibrant_color_from_region" /\ samples.state = "returned")
        => samples.list[1].examined =
              box(max2(0, request.region.x1), max2(0, request.region.y1),
                  min2(screen.width, request.region.x2),
                  min2(screen.height, request.region.y2))

\* C39: sample_screen_colors(screen, n) returns n colors.
C39_ExactlyRequestedCount ==
    (request.fn = "sample_screen_colors" /\ samples.state = "returned")
        => Len(samples.list) = request.n
====
